---- MODULE Spec2Model ----
(***************************************************************************)
(* A model of the CEI scoring orchestrator (scoring-scripts/               *)
(* score_services.py and its utils): the per-service retry / tool loop of  *)
(* score_service_with_tools, the worker pool and the as_completed loop of  *)
(* main, the sequential second pass, and the files the run writes.         *)
(*                                                                         *)
(* Scores are integers in hundredths (4.00 is 400).  A dict is a function  *)
(* from its keys (strings) to values; a file is the sequence of the        *)
(* records its lines hold.                                                 *)
(***************************************************************************)
EXTENDS Integers, Sequences, FiniteSets, TLC

\* ------------------------------------------------------------ constants
\* Python's None, for a score and for an alias (both are numbers here).
None == -1
\* score_service_with_tools(max_retries=3); main never passes another value.
max_retries == 3
\* --max-tool-iterations, default 3.
DefaultMaxToolIterations == 3
\* "Save progress every 10 services": completed_count % 10 == 0.
CheckpointEvery == 10
\* calculate_average_score: len(scores) != 7 is rejected.
ExpectedScores == 7

\* ------------------------------------------------------------ bounds
\* Longest input service list of the small runs.
MaxServices == 2
\* Largest --max-workers value tried.
MaxWorkers == 2
\* Longest destination file that exists before an append-mode run.
MaxExisting == 2
\* Number of runs of the same command line on the same destination file.
MaxRuns == 2
\* Input length of the long runs (one more than a checkpoint period).
BatchSize == 11
\* Responses other than the plain final answer, and client failures, that the
\* environment gives during one long run.
MaxDetours == 2

\* ------------------------------------------------------------ data
\* model_config['score_field'] of the model of this session, and the score
\* field of another model of MODEL_CONFIG.
score_field == "claude_sonnet_4_5_score"
other_score_field == "claude_opus_4_1_score"

\* dict.get(key): None when the key is absent.
get(d, k) == IF k \in DOMAIN d THEN d[k] ELSE None

Range(s) == {s[i] : i \in 1..Len(s)}

SeqsUpTo(S, n) == UNION {[1..k -> S] : k \in 0..n}

RECURSIVE SelectRecs(_, _)
\* [r for r in rs if r[f] is not None], by position.
SelectRecs(rs, keep) ==
    IF Len(rs) = 0 THEN <<>>
    ELSE IF keep[1] THEN <<rs[1]>> \o SelectRecs(Tail(rs), Tail(keep))
    ELSE SelectRecs(Tail(rs), Tail(keep))

\* The names of the records of a list, in order.
Names(rs) == [i \in 1..Len(rs) |-> rs[i].service_name]

Distinct(seq) == \A i, j \in 1..Len(seq) : seq[i] = seq[j] => i = j

Count(seq, x) == Cardinality({i \in 1..Len(seq) : seq[i] = x})

\* Input records (one line of --input each): one service with an alias, one
\* without.
ServicePool ==
    { [provider |-> "AWS", service_name |-> "a", service_alias |-> 1],
      [provider |-> "GCP", service_name |-> "b"] }

\* Lines a destination file may hold before an append-mode run: a score of
\* this session's model, a null score of it, a score of another model only.
ExistingPool ==
    { [provider |-> "AWS", service_name |-> "a", service_alias |-> 1]
          @@ (score_field :> 500),
      [provider |-> "AWS", service_name |-> "a"] @@ (other_score_field :> 300),
      [provider |-> "GCP", service_name |-> "b"] @@ (score_field :> 650),
      [provider |-> "GCP", service_name |-> "b"] @@ (score_field :> None) }

\* A line of an earlier run, for a service that is not in the long input.
OldRecord ==
    [provider |-> "AWS", service_name |-> "a", service_alias |-> 1]
        @@ (score_field :> 500)

\* The input of a long run: BatchSize services with distinct names.
BatchServices ==
    [i \in 1..BatchSize |-> [provider |-> "AWS", service_name |-> ToString(i)]]

\* Output paths: the generated "<dir>/<timestamp>-<model>.ndjson" of a fresh
\* run, or the --append-to path, which need not contain ".ndjson".
NdjsonPath == "out.ndjson"
OtherPath == "out.json"
FailedNdjsonPath == "out.failed.ndjson"
Paths == {NdjsonPath, OtherPath, FailedNdjsonPath}

\* output_file.replace('.ndjson', '.failed.ndjson')
failed_path(output_file) ==
    IF output_file = NdjsonPath THEN FailedNdjsonPath ELSE output_file


\* ------------------------------------------------------------ responses
\* What bedrock_client.converse gives back: an exception (error is its text;
\* BedrockClient.converse wraps every transport error) or a response with a
\* stop reason and the content blocks of its message.  A text is the
\* sequence of its segments: prose, a brace-balanced span that is not JSON,
\* a JSON object, or a ```json fence around a JSON object or around text
\* that is not JSON.  A JSON object is a record; a scores object is the
\* sequence of its items, each the name of a criterion with its value:
\* {"score": x}, a bare number x, a dict with no "score", a string, null or
\* a list.  A JSON value that is not an object is a record tagged number,
\* string, null or list.
ThrottlingError == "Bedrock Converse API error: ThrottlingException"
TimeoutError == "Bedrock Converse API error: ReadTimeout"
ParseError == "Failed to parse score from response"
MaxToolError == "Maximum tool use iterations reached"
ClientError == "boto3 client error"

TooManyTokensError == "Bedrock Converse API error: Too many tokens"

\* What the parser raises, by the text of the exception.
FloatOfNone ==
    "float() argument must be a string or a real number, not 'NoneType'"
FloatOfList ==
    "float() argument must be a string or a real number, not 'list'"
FloatOfText(text) == "could not convert string to float: '" \o text \o "'"
ItemsOfList == "'list' object has no attribute 'items'"
InOfInt == "argument of type 'int' is not iterable"

ScoreDict(x) == [score |-> x]
BareNumber(x) == [number |-> x]
NoScoreDict == [reason |-> "n/a"]
JsonString(text) == [string |-> text]
JsonNull == [null |-> TRUE]
JsonList == [list |-> TRUE]

\* The strings float() converts, with their values in hundredths.
NumericStrings == [text \in {"5"} |-> 500]

\* The seven criteria of the scoring prompt.
ExpectedCriteria ==
    <<"infrastructure_management", "operational_maintenance",
      "technical_skills", "pricing_model", "security_compliance",
      "scalability_control", "business_continuity">>

\* The expected names, in the prompt's order, for these criteria (a
\* criterion beyond the seventh has a name of its own).
Expected(criteria) ==
    [i \in 1..Len(criteria) |->
        [name |-> IF i <= Len(ExpectedCriteria) THEN ExpectedCriteria[i]
                  ELSE "criterion_" \o ToString(i)] @@ criteria[i]]

\* Names the prompt does not ask for.
Renamed(criteria) ==
    [i \in 1..Len(criteria) |->
        [name |-> "criterion_" \o ToString(i)] @@ criteria[i]]

\* A JSON object by its items.
Dict(items) == [items |-> items]

\* Where the scores object is in the JSON object of an answer.
AtScores(criteria) == [scores |-> Dict(criteria)]
AtProperties(criteria) == [properties |-> [scores |-> Dict(criteria)]]
BesideProperties(criteria) ==
    [properties |-> [title |-> "scores"], scores |-> Dict(criteria)]
NoScoresObject == [summary |-> "n/a"]
\* "scores" holds a list, not an object.
ScoresList == [scores |-> JsonList]

Prose == [kind |-> "prose"]
Braces == [kind |-> "braces"]
Object(data) == [kind |-> "object", data |-> data]
Fenced(data) == [kind |-> "fenced", data |-> data]
FencedBad == [kind |-> "fenced_bad"]

\* Content blocks of a message.
TextBlock(segments) == [text |-> segments]
ToolUseBlock(id, name, tool_input) ==
    [toolUse |-> [toolUseId |-> id, name |-> name, input |-> tool_input]]

\* The request the model makes when it asks for one documentation lookup.
PlainToolUse ==
    ToolUseBlock("tooluse_1", "get_aws_service_docs", [service_name |-> "a"])

\* A response by its error, stop reason and content.
ResponseOf(err, stop, content) ==
    [error |-> err, stopReason |-> stop, content |-> content]

\* An error, a tool-use response with one request, or a final answer whose
\* text is a JSON object with these bare numbers as its scores (prose only
\* when there are none).
Response(err, stop, scores) ==
    ResponseOf(err, stop,
        IF err # "" THEN <<>>
        ELSE IF stop = "tool_use" THEN <<PlainToolUse>>
        ELSE IF Len(scores) = 0 THEN <<TextBlock(<<Prose>>)>>
        ELSE <<TextBlock(<<Object(AtScores(Expected(
                  [i \in 1..Len(scores) |-> BareNumber(scores[i])])))>>)>>)

SevenTwos == [i \in 1..ExpectedScores |-> 200]
OneToSeven == [i \in 1..ExpectedScores |-> 100 * i]
SixScores == [i \in 1..(ExpectedScores - 1) |-> 300]

Responses ==
    { Response(ThrottlingError, "", <<>>),
      Response(TimeoutError, "", <<>>),
      Response("", "tool_use", <<>>),
      Response("", "end_turn", SevenTwos),
      Response("", "end_turn", OneToSeven),
      Response("", "end_turn", SixScores),
      Response("", "end_turn", <<>>) }

\* response_parser.is_tool_use_response
is_tool_use_response(response) == response.stopReason = "tool_use"

RECURSIVE Sum(_)
\* The quotient cut off, not rounded.
RoundDivFloor(total, n) == total \div n

\* The mean of whatever number of scores there is.
calculate_average_score_any(scores) ==
    IF Len(scores) = 0 THEN None
    ELSE ((2 * Sum(scores)) + Len(scores)) \div (2 * Len(scores))

Sum(s) == IF Len(s) = 0 THEN 0 ELSE s[1] + Sum(Tail(s))

\* round(x, 2) of x = total / n for hundredths: the nearest integer to
\* total / n (no tie arises for n = 7).
RoundDiv(total, n) == (2 * total + n) \div (2 * n)

\* response_parser.calculate_average_score
calculate_average_score(scores) ==
    IF Len(scores) = 0 THEN None
    ELSE IF Len(scores) # ExpectedScores THEN None
    ELSE RoundDiv(Sum(scores), Len(scores))

RECURSIVE Flatten(_)
Flatten(ss) == IF Len(ss) = 0 THEN <<>> ELSE ss[1] \o Flatten(Tail(ss))

\* response_parser.extract_text_from_response: the text blocks, joined.
extract_text_from_response(response) ==
    Flatten(SelectRecs(
        [i \in 1..Len(response.content) |->
            IF "text" \in DOMAIN response.content[i]
            THEN response.content[i].text ELSE <<>>],
        [i \in 1..Len(response.content) |->
            "text" \in DOMAIN response.content[i]]))

\* json.loads failed, or no span to load: parse_json_from_text's None.
JsonNone == [none |-> TRUE]

\* json.loads of the span that starts at a segment's first brace.
json_loads(segment) ==
    IF segment.kind \in {"object", "fenced"} THEN segment.data ELSE JsonNone

\* response_parser.parse_json_from_text: the first ```json fence when its
\* content loads, else the span from the first '{' of the text to its
\* matching '}'.
parse_json_from_text(text) ==
    LET fences == {i \in 1..Len(text) :
                      text[i].kind \in {"fenced", "fenced_bad"}}
        braces == {i \in 1..Len(text) :
                      text[i].kind \in {"braces", "object", "fenced"}}
        first(S) == CHOOSE i \in S : \A j \in S : i <= j
    IN IF fences # {} /\ text[first(fences)].kind = "fenced"
       THEN text[first(fences)].data
       ELSE IF braces # {} THEN json_loads(text[first(braces)])
       ELSE JsonNone

\* extract_scores_from_json's None, its dict of values, and an exception
\* that leaves it.
NoValues == [found |-> FALSE, values |-> <<>>, raised |-> ""]
Values(values) == [found |-> TRUE, values |-> values, raised |-> ""]
Raising(exc) == [found |-> FALSE, values |-> <<>>, raised |-> exc]

\* The argument of float() for a criterion: value['score'] of a dict, else
\* the value itself.
float_arg(value) ==
    IF "score" \in DOMAIN value
    THEN (IF value.score = None THEN JsonNull ELSE BareNumber(value.score))
    ELSE value

\* float(x): the number, or the exception raised.
float_raises(x) ==
    IF "number" \in DOMAIN x THEN ""
    ELSE IF "string" \in DOMAIN x
    THEN (IF x.string \in DOMAIN NumericStrings THEN ""
          ELSE FloatOfText(x.string))
    ELSE IF "null" \in DOMAIN x THEN FloatOfNone
    ELSE FloatOfList
float(x) ==
    IF "number" \in DOMAIN x THEN x.number ELSE NumericStrings[x.string]

\* isinstance(value, dict)
is_dict(value) == DOMAIN value \cap {"number", "string", "null", "list"} = {}

\* The loop over scores.items(), item by item: float(value['score']) or
\* float(value); it ends at the first item that is a dict with no 'score',
\* with None, or for which float raises, with the exception.
score_values(items) ==
    LET no_score(i) == is_dict(items[i]) /\ "score" \notin DOMAIN items[i]
        stops == {i \in 1..Len(items) :
                    no_score(i) \/ float_raises(float_arg(items[i])) # ""}
    IN IF stops = {}
       THEN Values([i \in 1..Len(items) |-> float(float_arg(items[i]))])
       ELSE LET first == CHOOSE i \in stops : \A j \in stops : i <= j IN
            IF no_score(first) THEN NoValues
            ELSE Raising(float_raises(float_arg(items[first])))

\* scores.items() of what stands at "scores".
items_of(scores) ==
    IF "items" \in DOMAIN scores THEN score_values(scores.items)
    ELSE Raising(ItemsOfList)

\* response_parser.extract_scores_from_json
extract_scores_from_json(score_data) ==
    IF "number" \in DOMAIN score_data THEN Raising(InOfInt)
    ELSE IF "list" \in DOMAIN score_data THEN NoValues
    ELSE IF /\ "properties" \in DOMAIN score_data
            /\ "scores" \in DOMAIN score_data.properties
    THEN items_of(score_data.properties.scores)
    ELSE IF "scores" \in DOMAIN score_data
    THEN items_of(score_data.scores)
    ELSE NoValues

\* What parse_score_response does: it returns a value, or an exception
\* leaves it.
Returns(value) == [raised |-> "", value |-> value]
Raises(exc) == [raised |-> exc, value |-> None]

\* Body(value), value computed once.
With(value, Body(_)) == CHOOSE result \in {Body(v) : v \in {value}} : TRUE

\* response_parser.parse_score_response
parse_score_response(response) ==
    LET average(scores) ==
            IF scores.raised # "" THEN Raises(scores.raised)
            ELSE IF ~scores.found \/ Len(scores.values) = 0
            THEN Returns(None)
            ELSE Returns(calculate_average_score(scores.values))
        extracted(score_data) ==
            IF score_data = JsonNone THEN Returns(None)
            ELSE With(extract_scores_from_json(score_data), average)
        parsed(text) ==
            IF Len(text) = 0 THEN Returns(None)
            ELSE With(parse_json_from_text(text), extracted)
    IN With(extract_text_from_response(response), parsed)

\* "ThrottlingException" in error_str or "Too many tokens" in error_str
is_throttling(error_str) ==
    error_str \in {ThrottlingError, TooManyTokensError}

\* ------------------------------------------------------------ state
VARIABLES
    input,                \* the services read from --input
    append_mode,          \* args.append_to is not None
    output_file,          \* the scores file path of the session
    max_workers,          \* --max-workers
    max_tool_iterations,  \* --max-tool-iterations
    fs,                   \* the files, by path
    file0,                \* the destination file when the run started
    runs,                 \* runs started so far
    budget,               \* detours the environment may still take (None: any)
    mpc,                  \* where main is
    services,             \* main's services list
    existing_scores,      \* load_existing_scores' dict, in insertion order
    results,              \* main's results list
    completed_count,      \* main's completed_count
    task,                 \* the pool's tasks, one per submitted service
    finished_futures,     \* the futures done and not yet yielded, oldest first
    failed_services,      \* the second pass's list
    idx,                  \* the second pass's position (1-based)
    ctx,                  \* the call of score_service_with_tools made by main
    wr,                   \* the open file being written
    hist,                 \* what the one observed call has done so far
    seen,                 \* the names sent to the model and scored, this run
    heap,                 \* the message lists, by the list object they are in
    messages,             \* the list object the followed call's messages is
    wait_time,            \* the followed call's wait_time, in tenths of a second
    selected_models,      \* the --models names main has still to go through
    model_config,         \* what get_model_config gave for the session's model
    tally,                \* the attempts and model calls made for one service
    tooling               \* the followed call's use_tools and tool_config

vars == <<input, append_mode, output_file, max_workers, max_tool_iterations,
          fs, file0, runs, budget, mpc, services, existing_scores, results,
          completed_count, task, finished_futures, failed_services, idx,
          ctx, wr, hist, seen, heap, messages, wait_time, selected_models,
          model_config, tally, tooling>>

\* The conversation and the wait of a call are local to it and read by
\* nothing else in a run; they are followed where one call is followed.
CallLocals == <<heap, messages, wait_time>>

\* The model of a session is chosen before the session starts.
Session == <<selected_models, model_config>>

\* ------------------------------------------------- score_service_with_tools
\* The locals of one call: where it is, its attempt index, its tool
\* iteration counter, the last error text, and the value it returns.
IdleCall ==
    [pc |-> "idle", attempt |-> 0, tool_iterations |-> 0, error |-> "",
     score |-> None]

\* Fail with the last attempt taken to be attempt max_retries.
FailOffByOne(c, error_str) ==
    IF c.attempt = max_retries
    THEN [c EXCEPT !.pc = "returned", !.error = error_str, !.score = None]
    ELSE [c EXCEPT !.pc = "sleep", !.error = error_str]

\* The except branch: the last attempt returns None, another one sleeps.
Fail(c, error_str) ==
    IF c.attempt = max_retries - 1
    THEN [c EXCEPT !.pc = "returned", !.error = error_str, !.score = None]
    ELSE [c EXCEPT !.pc = "sleep", !.error = error_str]

\* LoopHead with <= for <.
LoopHeadOffByOne(c) ==
    IF c.tool_iterations <= max_tool_iterations
    THEN [c EXCEPT !.pc = "call"]
    ELSE [c EXCEPT !.pc = "sleep", !.error = MaxToolError]

\* while tool_iterations < max_tool_iterations: ... else raise.
LoopHead(c) ==
    IF c.tool_iterations < max_tool_iterations
    THEN [c EXCEPT !.pc = "call"]
    ELSE Fail(c, MaxToolError)

\* The start of an attempt, up to the first model call.
StartAttempt(c) == LoopHead([c EXCEPT !.tool_iterations = 0, !.error = ""])

\* The call's entry: attempt 0.
StartCall == StartAttempt(IdleCall)

\* From a model call's outcome to the next model call, sleep or return.
OnResponse(c, response) ==
    IF response.error # "" THEN Fail(c, response.error)
    ELSE IF is_tool_use_response(response)
    THEN LoopHead([c EXCEPT !.tool_iterations = @ + 1])
    ELSE LET parsed == parse_score_response(response) IN
         IF parsed.raised # "" THEN Fail(c, parsed.raised)
         ELSE IF parsed.value = None THEN Fail(c, ParseError)
         ELSE [c EXCEPT !.pc = "returned", !.score = parsed.value]

\* time.sleep(wait_time) is over: the next attempt starts.
AfterSleep(c) == StartAttempt([c EXCEPT !.attempt = @ + 1])

\* A response other than the plain final answer with seven scores of 2.00.
IsDetour(response) == response # Response("", "end_turn", SevenTwos)

CanDetour == budget # 0
Spend(spent) == IF budget = None \/ ~spent THEN budget ELSE budget - 1

\* ------------------------------------------------------------ records
\* The identity fields copied from a dict d, the alias when it is truthy.
Identity(d) ==
    IF get(d, "service_alias") # None
    THEN [provider |-> d.provider, service_name |-> d.service_name,
          service_alias |-> d.service_alias]
    ELSE [provider |-> d.provider, service_name |-> d.service_name]

\* Every result carries the identity of the first service.
WrapperResultOfFirst(service, score) ==
    Identity(services[1]) @@ (score_field :> score)

\* score_service_wrapper's result dict.
WrapperResult(service, score) == Identity(service) @@ (score_field :> score)

\* The result main stores for a task that raised: no alias, an error text.
RaisedResult(service, exc) ==
    [provider |-> service.provider, service_name |-> service.service_name,
     error |-> exc] @@ (score_field :> None)

\* r.pop(key, None)
pop(r, key) == [k \in DOMAIN r \ {key} |-> r[k]]

\* Only the last CheckpointEvery results are looked at.
SuccessfulLastBatch(rs) ==
    SelectRecs(rs, [i \in 1..Len(rs) |->
                      /\ rs[i][score_field] # None
                      /\ i > Len(rs) - CheckpointEvery])

\* [r for r in results if r[score_field] is not None]
Successful(rs) ==
    SelectRecs(rs, [i \in 1..Len(rs) |-> rs[i][score_field] # None])

\* [r for r in results if r[score_field] is None]
Failed(rs) ==
    SelectRecs(rs, [i \in 1..Len(rs) |-> rs[i][score_field] = None])

\* A list in place of the dict: every scored line is kept.
dict_put_as_list(scored, data) == Append(scored, data)

\* scored[data['service_name']] = data, on a dict kept in insertion order.
dict_put(scored, data) ==
    IF \E i \in 1..Len(scored) : scored[i].service_name = data.service_name
    THEN [i \in 1..Len(scored) |->
            IF scored[i].service_name = data.service_name
            THEN data ELSE scored[i]]
    ELSE Append(scored, data)

RECURSIVE load_lines(_, _, _)
load_lines(lines, n, field) ==
    IF n = 0 THEN <<>>
    ELSE LET scored == load_lines(lines, n - 1, field)
             data == lines[n]
         IN IF get(data, field) # None THEN dict_put(scored, data)
            ELSE scored

\* load_existing_scores: the lines with a non-null field, keyed by name.
load_existing_scores(lines, field) == load_lines(lines, Len(lines), field)

\* No filter: every input service is scored again.
services_to_score_all(svcs, scored) == svcs

\* [s for s in services if s['service_name'] not in existing_scores]
services_to_score(svcs, scored) ==
    SelectRecs(svcs, [i \in 1..Len(svcs) |->
                        svcs[i].service_name \notin Range(Names(scored))])

\* Every result is listed, whatever its score.
failed_of_all(rs) ==
    [i \in 1..Len(rs) |->
        [provider |-> rs[i].provider, service_name |-> rs[i].service_name,
         service_alias |-> get(rs[i], "service_alias")]]

\* The parallel pass's failed_services list.
failed_of(rs) ==
    LET f == Failed(rs) IN
    [i \in 1..Len(f) |->
        [provider |-> f[i].provider, service_name |-> f[i].service_name,
         service_alias |-> get(f[i], "service_alias")]]

\* The second pass's score is dropped: results keeps the None.
update_result_dropped(rs, name, score) == rs

\* "Update the result in results list": the first entry of that name whose
\* score is None gets the score, and loses its error when the score is set.
update_result(rs, name, score) ==
    LET hits == {i \in 1..Len(rs) :
                    rs[i].service_name = name /\ rs[i][score_field] = None}
    IN IF hits = {} THEN rs
       ELSE LET k == CHOOSE i \in hits : \A j \in hits : i <= j
                r == [rs[k] EXCEPT ![score_field] = score]
            IN [rs EXCEPT ![k] = IF score # None THEN pop(r, "error") ELSE r]

\* The lines save_failed_services writes.
failed_entries(failed_results) ==
    [i \in 1..Len(failed_results) |-> Identity(failed_results[i])]

\* The lines of the append-mode final rewrite.
all_results(scored, rs) == scored \o Successful(rs)

\* ------------------------------------------------------------ tasks
QueuedTask == [IdleCall EXCEPT !.pc = "queued"]

\* A future that is done: the wrapper returned a result with this score.
FinishedTask(score) == [IdleCall EXCEPT !.pc = "finished", !.score = score]

RaisedTask == [IdleCall EXCEPT !.pc = "raised", !.error = ClientError]

CollectedTask == [IdleCall EXCEPT !.pc = "collected"]

\* What a worker holds after a step of its call: the call's locals, or the
\* finished future once the call has returned.
WorkerStep(c) == IF c.pc = "returned" THEN FinishedTask(c.score) ELSE c

Running == {i \in 1..Len(task) : task[i].pc \in {"call", "sleep"}}
Queued == {i \in 1..Len(task) : task[i].pc = "queued"}
Done == {i \in 1..Len(task) : task[i].pc \in {"finished", "raised"}}

\* No file is open; an open file keeps what it held before open truncated it.
NoWrite == [path |-> "", content |-> <<>>, next |-> "", before |-> <<>>]

\* What a run has done so far: the service names a model call was made for
\* (called), those for which a call of score_service_with_tools returned a
\* score (produced; first: in a pool thread), the lines of the last
\* checkpoint (saved), the names the second pass has taken (retried), the
\* places where main changed the results list or wrote the scores file
\* with the lock of that object not held (bare), the BedrockClient objects
\* passed to a call with the task or retry that passed them (used), and the
\* number of summaries printed (summaries).
NoneSeen ==
    [called |-> {}, produced |-> {}, first |-> {}, saved |-> <<>>,
     retried |-> <<>>, bare |-> {}, used |-> {}, summaries |-> 0]

\* The locks main holds at each place where it changes the results list or
\* writes a file: the two appends of the as_completed loop, the second
\* pass's update, save_results_thread_safe at a checkpoint and at the fresh
\* final save, the append-mode rewrite, save_failed_services.
LocksHeld ==
    [append |-> {"results_lock"}, append_exc |-> {"results_lock"},
     update |-> {}, checkpoint |-> {"file_lock"}, fresh_save |-> {"file_lock"},
     append_rewrite |-> {}, failed_file |-> {}]

\* main changes the object that lock protects, at that place.
Touch(s, place, lock) ==
    IF lock \in LocksHeld[place] THEN s
    ELSE [s EXCEPT !.bare = @ \cup {place}]

\* The users of a BedrockClient: a task of the pool, a retry of the second
\* pass.
PoolTask(i) == [pass |-> "pool", n |-> i]
Retry(k) == [pass |-> "second", n |-> k]

\* The client main builds at line 595 is handed to every task.
main_client(user) == [built_at |-> "main", for |-> PoolTask(0)]

\* BedrockClient(region_name=...) in score_service_wrapper and in the second
\* pass: a new object at every execution of the line.
new_client(user) == [built_at |-> user.pass, for |-> user]

\* A call is entered by user with the client it was given.
Use(s, user) ==
    [s EXCEPT !.used = @ \cup {[client |-> new_client(user), by |-> user]}]

\* A model call for the service of that name has left its call at c.
See(name, c) ==
    [seen EXCEPT
        !.called = @ \cup {name},
        !.produced = IF c.pc \in {"returned", "finished"} /\ c.score # None
                     THEN @ \cup {name} ELSE @]

\* The same, for a call made by a pool thread.
SeePool(name, c) ==
    [See(name, c) EXCEPT
        !.first = IF c.pc \in {"returned", "finished"} /\ c.score # None
                  THEN @ \cup {name} ELSE @]

\* The causes of a failed attempt, read from the response: a model-call
\* error, a tool-use answer that exhausts the tool iterations, a final
\* answer that does not parse or on which the parser raises.
AttemptFailsOn(c, response) ==
    \/ response.error # ""
    \/ /\ response.error = ""
       /\ is_tool_use_response(response)
       /\ c.tool_iterations + 1 >= max_tool_iterations
    \/ /\ response.error = ""
       /\ ~is_tool_use_response(response)
       /\ LET parsed == parse_score_response(response)
          IN parsed.raised # "" \/ parsed.value = None

\* Nothing observed yet of the call that is followed.
NoHist == [calls |-> 0, fails |-> 0, response |-> Response("", "", <<>>)]

\* A call is entered: with no tool iteration allowed its first attempt has
\* failed before any model call.
StartHist ==
    [NoHist EXCEPT !.fails = IF max_tool_iterations <= 0 THEN 1 ELSE 0]

\* The model has answered the call c with response.
Heard(h, c, response) ==
    [calls |-> h.calls + 1,
     fails |-> h.fails + (IF AttemptFailsOn(c, response) THEN 1 ELSE 0),
     response |-> response]

\* The next attempt starts: no model call of it yet, no response.
Slept(h) ==
    [calls |-> 0,
     fails |-> h.fails + (IF max_tool_iterations <= 0 THEN 1 ELSE 0),
     response |-> NoHist.response]

\* open(path, 'w'): the file is truncated; its lines reach it at close.
Open(path, content, next) ==
    /\ fs' = [fs EXCEPT ![path] = <<>>]
    /\ wr' = [path |-> path, content |-> content, next |-> next,
              before |-> fs[path]]
    /\ mpc' = "writing"

\* ------------------------------------------------- conversation and tools
\* A piece of prose with known words.
Said(words) == [kind |-> "prose", says |-> words]

Message(role, content) == [role |-> role, content |-> content]

\* main's base_conversation: the initial user message and the assistant's
\* acknowledgement.
SeedConversation ==
    << Message("user", <<TextBlock(<<Said("initial_message")>>)>>),
       Message("assistant", <<TextBlock(<<Said("I understand.")>>)>>) >>

\* The provider is left out of the prompt.
user_prompt_by_name(service) == "Please score " \o service.service_name

\* "Please score {service_name} for {provider}"
user_prompt(service) ==
    "Please score " \o service.service_name \o " for " \o service.provider

\* The user turn of an attempt of the call that is followed, for services[1].
UserPrompt ==
    Message("user", <<TextBlock(<<Said(user_prompt(services[1]))>>)>>)

\* List objects: the list main builds, and the list an attempt works on.
base_conversation == "base_conversation"
AttemptList == "messages"
NoList == ""

\* Before any attempt: the seed, and no list of an attempt yet.
NoMessages ==
    [l \in {base_conversation, AttemptList} |->
        IF l = base_conversation THEN SeedConversation ELSE <<>>]

\* No copy: the same list object is used.
list_alias(l) == l

\* list.copy(): a new list object.
list_copy(l) == AttemptList

\* messages = base_conversation.copy(); messages.append({user prompt})
new_messages(h) ==
    LET l == list_copy(base_conversation)
        copied == [h EXCEPT ![l] = h[base_conversation]]
    IN [messages |-> l, heap |-> [copied EXCEPT ![l] = Append(@, UserPrompt)]]

\* What the search backend does during one tool round.
Backends == {"results", "search error", "unavailable"}

\* A tool's outcome: the text it returns, or the text of what it raises.
Returned(text) == [raised |-> FALSE, text |-> text]
Raised(text) == [raised |-> TRUE, text |-> text]

\* search_*_documentation and format_search_results_for_model: the hits,
\* or the snippet of the 'Search Error' / 'Search Unavailable' entry.
search_documentation(backend) ==
    IF backend = "results" THEN "documentation"
    ELSE IF backend = "search error" THEN "An error occurred during search"
    ELSE "Web search is not available"

\* tool_handlers.execute_aws_docs_tool
execute_aws_docs_tool(tool_input, backend) ==
    IF "service_name" \notin DOMAIN tool_input
    THEN Returned("Error: service_name is required")
    ELSE Returned(search_documentation(backend))

\* tool_handlers.execute_cloud_docs_search_tool
execute_cloud_docs_search_tool(tool_input, backend) ==
    IF \/ "service_name" \notin DOMAIN tool_input
       \/ "provider" \notin DOMAIN tool_input
    THEN Returned("Error: service_name and provider are required")
    ELSE IF tool_input.provider \in {"Azure", "GCP"}
    THEN Returned(search_documentation(backend))
    ELSE Returned("Error: Unknown provider")

\* tool_handlers.execute_tool
execute_tool(tool_name, tool_input, backend) ==
    IF tool_name = "get_aws_service_docs"
    THEN execute_aws_docs_tool(tool_input, backend)
    ELSE IF tool_name = "search_cloud_provider_docs"
    THEN execute_cloud_docs_search_tool(tool_input, backend)
    ELSE Raised("Unknown tool")

\* tool_definitions.format_tool_result
format_tool_result(tool_use_id, content, is_error) ==
    [toolResult |->
        [toolUseId |-> tool_use_id,
         content |-> <<TextBlock(<<Said(content)>>)>>,
         status |-> IF is_error THEN "error" ELSE "success"]]

\* response_parser.extract_tool_requests
extract_tool_requests(response) ==
    SelectRecs(response.content,
               [i \in 1..Len(response.content) |->
                   "toolUse" \in DOMAIN response.content[i]])

\* Only the first request is answered.
process_first_request_only(tool_use_blocks, backend) ==
    IF Len(tool_use_blocks) = 0 THEN <<>>
    ELSE LET tool_use == tool_use_blocks[1].toolUse
             done == execute_tool(tool_use.name, tool_use.input, backend)
         IN <<format_tool_result(tool_use.toolUseId, done.text, done.raised)>>

\* A request whose tool raises gets no result.
process_skipping_raised(tool_use_blocks, backend) ==
    LET done(i) == execute_tool(tool_use_blocks[i].toolUse.name,
                                tool_use_blocks[i].toolUse.input, backend)
    IN SelectRecs(
        [i \in 1..Len(tool_use_blocks) |->
            format_tool_result(tool_use_blocks[i].toolUse.toolUseId,
                               done(i).text, FALSE)],
        [i \in 1..Len(tool_use_blocks) |-> ~done(i).raised])

\* tool_handlers.process_tool_use_requests
process_tool_use_requests(tool_use_blocks, backend) ==
    [i \in 1..Len(tool_use_blocks) |->
        LET tool_use == tool_use_blocks[i].toolUse
            done == execute_tool(tool_use.name, tool_use.input, backend)
        IN IF done.raised
           THEN format_tool_result(tool_use.toolUseId,
                                   "Error executing " \o tool_use.name
                                       \o ": " \o done.text, TRUE)
           ELSE format_tool_result(tool_use.toolUseId, done.text, FALSE)]

\* response_parser.get_response_message
get_response_message(response) == Message("assistant", response.content)

\* tool_definitions.create_tool_result_message
create_tool_result_message(tool_results) == Message("user", tool_results)

\* Lines 237-255: the assistant's message, then the tool results, are
\* appended to messages; nothing is appended for another response.
messages_after(h, l, response, backend) ==
    IF response.error = "" /\ is_tool_use_response(response)
    THEN [h EXCEPT ![l] =
            @ \o << get_response_message(response),
                    create_tool_result_message(
                        process_tool_use_requests(
                            extract_tool_requests(response), backend)) >>]
    ELSE h

\* random.uniform(0.5, 1.5), in tenths.
JitterMin == 5
JitterMax == 15
Jitters == {JitterMin, (JitterMin + JitterMax) \div 2, JitterMax}

\* base_wait = 5 * (2 ** attempt) for throttling.
ThrottleBase == 5

\* The throttling test is not made: every failure takes the short wait.
wait_time_short(attempt, error_str, jitter) == (2 ^ attempt) * jitter

\* Lines 277-292: wait_time = base_wait * jitter, in tenths of a second.
wait_time_of(attempt, error_str, jitter) ==
    IF is_throttling(error_str)
    THEN ThrottleBase * (2 ^ attempt) * jitter
    ELSE (2 ^ attempt) * jitter

\* The wait of a call that is about to sleep; None otherwise.
WaitOf(c, jitter) ==
    IF c.pc = "sleep" THEN wait_time_of(c.attempt, c.error, jitter) ELSE None

\* ------------------------------------------------------------ models
\* model_config.MODEL_CONFIG: the canonical names, in the order of the dict,
\* and the profile of each.
ModelNames ==
    <<"claude-sonnet-4", "claude-opus-4.1", "claude-sonnet-4.5", "llama-3.3-70b">>

Profile(model_id, provider, field, display_name) ==
    [id |-> model_id, provider |-> provider, supports_tools |-> TRUE,
     score_field |-> field, display_name |-> display_name]

MODEL_CONFIG ==
    [name \in Range(ModelNames) |->
        IF name = "claude-sonnet-4"
        THEN Profile("us.anthropic.claude-sonnet-4-20250514-v1:0", "anthropic",
                     "claude_sonnet_4_score", "Claude Sonnet 4")
        ELSE IF name = "claude-opus-4.1"
        THEN Profile("us.anthropic.claude-opus-4-1-20250805-v1:0", "anthropic",
                     other_score_field, "Claude Opus 4.1")
        ELSE IF name = "claude-sonnet-4.5"
        THEN Profile("us.anthropic.claude-sonnet-4-5-20250929-v1:0", "anthropic",
                     score_field, "Claude Sonnet 4.5")
        ELSE Profile("us.meta.llama3-3-70b-instruct-v1:0", "meta",
                     "llama_3_3_70b_score", "Llama 3.3 70B Instruct")]

\* model_config.MODEL_ALIASES: the aliases, in the order of the dict, and the
\* canonical name of each.
AliasNames ==
    <<"sonnet-4", "opus-4.1", "opus", "sonnet-4.5", "sonnet", "llama", "llama-3.3">>

MODEL_ALIASES ==
    [alias \in Range(AliasNames) |->
        IF alias = "sonnet-4" THEN "claude-sonnet-4"
        ELSE IF alias \in {"opus-4.1", "opus"} THEN "claude-opus-4.1"
        ELSE IF alias \in {"sonnet-4.5", "sonnet"} THEN "claude-sonnet-4.5"
        ELSE "llama-3.3-70b"]

\* No profile: get_model_config raised.
NoProfile == Profile("", "", "", "")

\* get_model_config's outcome for the name asked: the profile returned, or
\* the ValueError raised with the names its message lists.
Resolved(asked, profile) ==
    [asked |-> asked, raised |-> FALSE, config |-> profile, available |-> <<>>]
UnknownModel(asked, available) ==
    [asked |-> asked, raised |-> TRUE, config |-> NoProfile,
     available |-> available]

\* Aliases are not looked up.
get_model_config_no_alias(model_name) ==
    IF model_name \notin DOMAIN MODEL_CONFIG
    THEN UnknownModel(model_name, ModelNames \o AliasNames)
    ELSE Resolved(model_name, MODEL_CONFIG[model_name])

\* model_config.get_model_config
get_model_config(model_name) ==
    LET name == IF model_name \in DOMAIN MODEL_ALIASES
                THEN MODEL_ALIASES[model_name] ELSE model_name
    IN IF name \notin DOMAIN MODEL_CONFIG
       THEN UnknownModel(model_name, ModelNames \o AliasNames)
       ELSE Resolved(model_name, MODEL_CONFIG[name])

\* The model of the sessions that are followed through their passes.
SessionModel == "claude-sonnet-4.5"

\* ------------------------------------------------------------ one service
\* The attempts and the model calls made in a run for the service of one
\* name; no name: no service is followed.
NoTally == [name |-> "", attempts |-> 0, calls |-> 0]

\* An attempt of score_service_with_tools starts for the service name.
Attempted(t, name) ==
    IF t.name = name THEN [t EXCEPT !.attempts = @ + 1] ELSE t

\* bedrock_client.converse is called for the service name.
Called(t, name) ==
    IF t.name = name THEN [t EXCEPT !.calls = @ + 1] ELSE t

\* ------------------------------------------------------------ tool config
\* tool_definitions.get_tool_definitions: the two tool specifications, by
\* their names.
get_tool_definitions == <<"get_aws_service_docs", "search_cloud_provider_docs">>

\* tool_handlers.should_use_tools
should_use_tools(service_name, provider) == TRUE

\* model_config.get('supports_tools', False)
supports_tools(profile) ==
    IF "supports_tools" \in DOMAIN profile THEN profile.supports_tools
    ELSE FALSE

\* tool_config = None
NoToolConfig == [none |-> TRUE]

\* The flag of the run is not looked at.
tool_config_any_run(use_tools, profile, service) ==
    IF supports_tools(profile)
    THEN [tools |-> get_tool_definitions] ELSE NoToolConfig

\* score_service_with_tools: the tool_config of an attempt.
tool_config_of(use_tools, profile, service) ==
    IF /\ use_tools
       /\ supports_tools(profile)
       /\ should_use_tools(service.service_name, service.provider)
    THEN [tools |-> get_tool_definitions]
    ELSE NoToolConfig

\* No call is followed.
NoTooling == [use_tools |-> TRUE, tool_config |-> NoToolConfig, passed |-> {}]

\* An attempt starts: its tool_config is set, no model call has got it yet.
StartTooling(use_tools, profile, service) ==
    [use_tools |-> use_tools,
     tool_config |-> tool_config_of(use_tools, profile, service),
     passed |-> {}]

\* bedrock_client.converse(..., tool_config=tool_config)
Passed(t) == [t EXCEPT !.passed = @ \cup {t.tool_config}]

\* ------------------------------------------------------------ initial states
\* What every run starts with, whatever its command line.
FreshProcess ==
    /\ runs = 1
    /\ mpc = "start"
    /\ services = input
    /\ existing_scores = <<>>
    /\ results = <<>>
    /\ completed_count = 0
    /\ task = <<>>
    /\ finished_futures = <<>>
    /\ failed_services = <<>>
    /\ idx = 0
    /\ ctx = IdleCall
    /\ wr = NoWrite
    /\ hist = NoHist
    /\ seen = NoneSeen
    /\ heap = NoMessages
    /\ messages = NoList
    /\ wait_time = None
    /\ selected_models = <<>>
    /\ model_config = get_model_config(SessionModel)
    /\ tooling = NoTooling

\* A small run: any input of up to MaxServices services; a fresh run writes a
\* new timestamped .ndjson file, an append run any existing file.
Init ==
    /\ input \in SeqsUpTo(ServicePool, MaxServices)
    /\ append_mode \in BOOLEAN
    /\ output_file \in (IF append_mode THEN {NdjsonPath, OtherPath}
                        ELSE {NdjsonPath})
    /\ max_workers \in 1..MaxWorkers
    /\ max_tool_iterations = DefaultMaxToolIterations
    /\ file0 \in (IF append_mode THEN SeqsUpTo(ExistingPool, MaxExisting)
                  ELSE {<<>>})
    /\ fs = [p \in Paths |-> IF p = output_file THEN file0 ELSE <<>>]
    /\ budget = None
    /\ tally = NoTally
    /\ FreshProcess

\* A long run: more services than a checkpoint period, one pool thread
\* (--max-workers 1), an environment that takes at most MaxDetours detours;
\* in append mode the destination file holds one score of an earlier run.
InitBatch ==
    /\ input = BatchServices
    /\ append_mode \in BOOLEAN
    /\ output_file = NdjsonPath
    /\ max_workers = 1
    /\ max_tool_iterations = DefaultMaxToolIterations
    /\ file0 = (IF append_mode THEN <<OldRecord>> ELSE <<>>)
    /\ fs = [p \in Paths |-> IF p = output_file THEN file0 ELSE <<>>]
    /\ budget = MaxDetours
    /\ tally = NoTally
    /\ FreshProcess

\* ------------------------------------------------------------ main
\* Lines 678-721: load and filter in append mode, then submit every service.
start_session ==
    /\ mpc = "start"
    /\ LET scored == IF append_mode
                     THEN load_existing_scores(fs[output_file], score_field)
                     ELSE <<>>
           todo == services_to_score(services, scored)
           svcs == IF append_mode /\ Len(todo) < Len(services)
                   THEN todo ELSE services
       IN /\ existing_scores' = scored
          /\ services' = svcs
          /\ IF append_mode /\ Len(svcs) = 0
             THEN mpc' = "done" /\ task' = <<>>
             ELSE mpc' = "pool" /\ task' = [i \in 1..Len(svcs) |-> QueuedTask]
    /\ results' = <<>>
    /\ completed_count' = 0
    /\ UNCHANGED <<input, append_mode, output_file, max_workers,
                   max_tool_iterations, fs, file0, runs, budget,
                   finished_futures, failed_services, idx, ctx, wr, hist,
                   seen, heap, messages, wait_time, selected_models,
                   model_config, tally, tooling>>

MainOnly ==
    UNCHANGED CallLocals /\ UNCHANGED Session /\ UNCHANGED tally /\
    UNCHANGED tooling /\
    UNCHANGED <<input, append_mode, output_file, max_workers,
                max_tool_iterations, file0, runs, budget, services,
                existing_scores, task, finished_futures, ctx, hist>>

\* A future that is done joins the futures as_completed will yield.
Notify(i) ==
    finished_futures' =
        IF task'[i].pc \in {"finished", "raised"}
        THEN Append(finished_futures, i) ELSE finished_futures

WorkerOnly ==
    UNCHANGED CallLocals /\ UNCHANGED Session /\ UNCHANGED tooling /\
    UNCHANGED <<input, append_mode, output_file, max_workers,
                max_tool_iterations, fs, file0, runs, mpc, services,
                existing_scores, results, completed_count, failed_services,
                idx, ctx, wr, hist>>

\* A pool thread takes the next queued task: score_service_wrapper builds
\* its BedrockClient and enters score_service_with_tools.
score_service_wrapper(i) ==
    /\ i \in Queued
    /\ \A j \in Queued : i <= j
    /\ Cardinality(Running) < max_workers
    /\ task' = [task EXCEPT ![i] = WorkerStep(StartCall)]
    /\ budget' = budget
    /\ seen' = Use(seen, PoolTask(i))
    /\ tally' = Attempted(tally, services[i].service_name)
    /\ Notify(i)
    /\ WorkerOnly

\* The same, when BedrockClient(...) raises: the future holds the exception.
wrapper_raises(i) ==
    /\ i \in Queued
    /\ \A j \in Queued : i <= j
    /\ Cardinality(Running) < max_workers
    /\ CanDetour
    /\ task' = [task EXCEPT ![i] = RaisedTask]
    /\ budget' = Spend(TRUE)
    /\ seen' = seen
    /\ tally' = tally
    /\ Notify(i)
    /\ WorkerOnly

\* bedrock_client.converse returns or raises in a worker's call.
converse(i) ==
    /\ i \in 1..Len(task)
    /\ task[i].pc = "call"
    /\ \E response \in Responses :
        /\ IsDetour(response) => CanDetour
        /\ task' = [task EXCEPT ![i] = WorkerStep(OnResponse(task[i], response))]
        /\ budget' = Spend(IsDetour(response))
        /\ seen' = SeePool(services[i].service_name,
                           OnResponse(task[i], response))
    /\ tally' = Called(tally, services[i].service_name)
    /\ Notify(i)
    /\ WorkerOnly

\* A worker's backoff sleep ends.
backoff(i) ==
    /\ i \in 1..Len(task)
    /\ task[i].pc = "sleep"
    /\ task' = [task EXCEPT ![i] = WorkerStep(AfterSleep(task[i]))]
    /\ budget' = budget
    /\ seen' = seen
    /\ tally' = Attempted(tally, services[i].service_name)
    /\ Notify(i)
    /\ WorkerOnly

\* Lines 724-738: the as_completed loop takes a future that returned.
as_completed(i) ==
    /\ mpc = "pool"
    /\ Len(finished_futures) > 0
    /\ i = Head(finished_futures)
    /\ task[i].pc = "finished"
    /\ finished_futures' = Tail(finished_futures)
    /\ LET rs == Append(results, WrapperResult(services[i], task[i].score)) IN
       /\ results' = rs
       /\ completed_count' = completed_count + 1
       /\ IF (completed_count + 1) % CheckpointEvery = 0
          THEN /\ Open(output_file, Successful(rs), "pool")
               /\ seen' = Touch(Touch(seen, "append", "results_lock"),
                                "checkpoint", "file_lock")
          ELSE /\ UNCHANGED <<fs, wr, mpc>>
               /\ seen' = Touch(seen, "append", "results_lock")
    /\ task' = [task EXCEPT ![i] = CollectedTask]
    /\ UNCHANGED <<input, append_mode, output_file, max_workers,
                   max_tool_iterations, file0, runs, budget, services,
                   existing_scores, failed_services, idx, ctx, hist,
                   heap, messages, wait_time, selected_models, model_config,
                   tally, tooling>>

\* Lines 740-750: the as_completed loop takes a future that raised.
as_completed_exc(i) ==
    /\ mpc = "pool"
    /\ Len(finished_futures) > 0
    /\ i = Head(finished_futures)
    /\ task[i].pc = "raised"
    /\ finished_futures' = Tail(finished_futures)
    /\ results' = Append(results, RaisedResult(services[i], task[i].error))
    /\ completed_count' = completed_count + 1
    /\ task' = [task EXCEPT ![i] = CollectedTask]
    /\ seen' = Touch(seen, "append_exc", "results_lock")
    /\ UNCHANGED <<input, append_mode, output_file, max_workers,
                   max_tool_iterations, fs, file0, runs, budget, mpc,
                   services, existing_scores, failed_services, idx, ctx, wr,
                   hist, heap, messages, wait_time, selected_models,
                   model_config, tally, tooling>>

\* The with-block of an open file ends: the lines written are in the file.
close_file ==
    /\ mpc = "writing"
    /\ fs' = [fs EXCEPT ![wr.path] = wr.content]
    /\ mpc' = wr.next
    /\ wr' = NoWrite
    /\ seen' = IF wr.next = "pool" THEN [seen EXCEPT !.saved = wr.content]
               ELSE seen
    /\ UNCHANGED <<results, completed_count, failed_services, idx>>
    /\ MainOnly

\* Lines 752-764: the pool is done; the failed services are listed.
pool_exit ==
    /\ mpc = "pool"
    /\ \A i \in 1..Len(task) : task[i].pc = "collected"
    /\ failed_services' = failed_of(results)
    /\ IF Len(failed_of(results)) > 0
       THEN mpc' = "second" /\ idx' = 1
       ELSE mpc' = "final" /\ idx' = 0
    /\ UNCHANGED <<fs, wr, results, completed_count, seen>>
    /\ MainOnly

SecondOnly ==
    UNCHANGED CallLocals /\ UNCHANGED Session /\ UNCHANGED tooling /\
    UNCHANGED <<input, append_mode, output_file, max_workers,
                max_tool_iterations, fs, file0, runs, services,
                existing_scores, completed_count, task, finished_futures,
                failed_services, wr>>

\* Lines 766-782: the retry's BedrockClient is built and the call entered.
retry_call ==
    /\ mpc = "second"
    /\ ctx.pc = "idle"
    /\ ctx' = StartCall
    /\ hist' = StartHist
    /\ seen' = [Use(seen, Retry(idx)) EXCEPT
                  !.retried = Append(@, failed_services[idx].service_name)]
    /\ tally' = Attempted(tally, failed_services[idx].service_name)
    /\ UNCHANGED <<mpc, results, idx, budget>>
    /\ SecondOnly

\* Line 770 raises: nothing in main catches it, the process ends.
retry_client_raises ==
    /\ mpc = "second"
    /\ ctx.pc = "idle"
    /\ CanDetour
    /\ mpc' = "aborted"
    /\ budget' = Spend(TRUE)
    /\ UNCHANGED <<ctx, results, idx, seen, hist, tally>>
    /\ SecondOnly

\* bedrock_client.converse returns or raises in the retry's call.
retry_converse ==
    /\ mpc = "second"
    /\ ctx.pc = "call"
    /\ \E response \in Responses :
        /\ IsDetour(response) => CanDetour
        /\ ctx' = OnResponse(ctx, response)
        /\ budget' = Spend(IsDetour(response))
        /\ seen' = See(failed_services[idx].service_name,
                       OnResponse(ctx, response))
        /\ hist' = [Heard(hist, ctx, response) EXCEPT
                      !.response = hist.response]
    /\ tally' = Called(tally, failed_services[idx].service_name)
    /\ UNCHANGED <<mpc, results, idx>>
    /\ SecondOnly

\* The retry's backoff sleep ends.
retry_backoff ==
    /\ mpc = "second"
    /\ ctx.pc = "sleep"
    /\ ctx' = AfterSleep(ctx)
    /\ hist' = Slept(hist)
    /\ tally' = Attempted(tally, failed_services[idx].service_name)
    /\ UNCHANGED <<mpc, results, idx, budget, seen>>
    /\ SecondOnly

\* Lines 784-795: the retry returned; its result is updated, then the next
\* failed service (after time.sleep(2)) or the final save.
retry_update ==
    /\ mpc = "second"
    /\ ctx.pc = "returned"
    /\ results' = update_result(results, failed_services[idx].service_name,
                                ctx.score)
    /\ ctx' = IdleCall
    /\ IF idx < Len(failed_services)
       THEN idx' = idx + 1 /\ mpc' = mpc
       ELSE idx' = idx /\ mpc' = "final"
    /\ hist' = NoHist
    /\ seen' = Touch(seen, "update", "results_lock")
    /\ UNCHANGED <<budget, tally>>
    /\ SecondOnly

\* Lines 797-816: the final save, a rewrite of old and new in append mode.
final_save ==
    /\ mpc = "final"
    /\ IF append_mode
       THEN /\ Open(output_file, all_results(existing_scores, results),
                    "failed")
            /\ seen' = Touch(seen, "append_rewrite", "file_lock")
       ELSE /\ Open(output_file, Successful(results), "failed")
            /\ seen' = Touch(seen, "fresh_save", "file_lock")
    /\ UNCHANGED <<results, completed_count, failed_services, idx>>
    /\ MainOnly

\* Lines 818-823: save_failed_services, when a result has no score.
save_failed_services ==
    /\ mpc = "failed"
    /\ IF Len(Failed(results)) > 0
       THEN /\ Open(failed_path(output_file), failed_entries(Failed(results)),
                    "summary")
            /\ seen' = IF failed_path(output_file) = output_file
                       THEN Touch(seen, "failed_file", "file_lock") ELSE seen
       ELSE mpc' = "summary" /\ UNCHANGED <<fs, wr, seen>>
    /\ UNCHANGED <<results, completed_count, failed_services, idx>>
    /\ MainOnly

\* Lines 825-840: the summary is printed; the session is over.
print_scoring_summary ==
    /\ mpc = "summary"
    /\ mpc' = "done"
    /\ seen' = [seen EXCEPT !.summaries = @ + 1]
    /\ UNCHANGED <<fs, wr, results, completed_count, failed_services, idx>>
    /\ MainOnly

\* The same command line is run again on the same destination file.
rerun ==
    /\ mpc = "done"
    /\ append_mode
    /\ runs < MaxRuns
    /\ runs' = runs + 1
    /\ file0' = fs[output_file]
    /\ mpc' = "start"
    /\ services' = input
    /\ existing_scores' = <<>>
    /\ results' = <<>>
    /\ completed_count' = 0
    /\ task' = <<>>
    /\ failed_services' = <<>>
    /\ idx' = 0
    /\ ctx' = IdleCall
    /\ seen' = NoneSeen
    /\ tally' = [NoTally EXCEPT !.name = tally.name]
    /\ UNCHANGED <<input, append_mode, output_file, max_workers,
                   max_tool_iterations, fs, budget, finished_futures, wr,
                   hist, heap, messages, wait_time, selected_models,
                   model_config, tooling>>

Next ==
    \/ start_session
    \/ \E i \in 1..Len(task) : score_service_wrapper(i)
    \/ \E i \in 1..Len(task) : wrapper_raises(i)
    \/ \E i \in 1..Len(task) : converse(i)
    \/ \E i \in 1..Len(task) : backoff(i)
    \/ \E i \in 1..Len(task) : as_completed(i)
    \/ \E i \in 1..Len(task) : as_completed_exc(i)
    \/ close_file
    \/ pool_exit
    \/ retry_call
    \/ retry_client_raises
    \/ retry_converse
    \/ retry_backoff
    \/ retry_update
    \/ final_save
    \/ save_failed_services
    \/ print_scoring_summary
    \/ rerun

Spec == Init /\ [][Next]_vars

SpecBatch == InitBatch /\ [][Next]_vars

\* ------------------------------------------------------------ recovery
\* A first run, fresh or in append mode on a new file, whose scores file has
\* a failed-services file beside it.
InitRecover ==
    /\ input \in {in \in SeqsUpTo(ServicePool, MaxServices) :
                    Len(in) > 0 /\ Distinct(Names(in))}
    /\ append_mode \in BOOLEAN
    /\ output_file = NdjsonPath
    /\ max_workers = 1
    /\ max_tool_iterations = DefaultMaxToolIterations
    /\ file0 = <<>>
    /\ fs = [p \in Paths |-> <<>>]
    /\ budget = None
    /\ tally = NoTally
    /\ FreshProcess

\* The recovery run: --input is the failed-services file the last run left,
\* --append-to the scores file of that run.
recover ==
    /\ mpc = "done"
    /\ runs < MaxRuns
    /\ Len(fs[failed_path(output_file)]) > 0
    /\ input' = fs[failed_path(output_file)]
    /\ append_mode' = TRUE
    /\ runs' = runs + 1
    /\ file0' = fs[output_file]
    /\ mpc' = "start"
    /\ services' = input'
    /\ existing_scores' = <<>>
    /\ results' = <<>>
    /\ completed_count' = 0
    /\ task' = <<>>
    /\ failed_services' = <<>>
    /\ idx' = 0
    /\ ctx' = IdleCall
    /\ seen' = NoneSeen
    /\ tally' = [NoTally EXCEPT !.name = tally.name]
    /\ UNCHANGED <<output_file, max_workers, max_tool_iterations, fs, budget,
                   finished_futures, wr, hist, heap, messages, wait_time,
                   selected_models, model_config, tooling>>

NextRecover ==
    \/ start_session
    \/ \E i \in 1..Len(task) : score_service_wrapper(i)
    \/ \E i \in 1..Len(task) : wrapper_raises(i)
    \/ \E i \in 1..Len(task) : converse(i)
    \/ \E i \in 1..Len(task) : backoff(i)
    \/ \E i \in 1..Len(task) : as_completed(i)
    \/ \E i \in 1..Len(task) : as_completed_exc(i)
    \/ close_file
    \/ pool_exit
    \/ retry_call
    \/ retry_client_raises
    \/ retry_converse
    \/ retry_backoff
    \/ retry_update
    \/ final_save
    \/ save_failed_services
    \/ print_scoring_summary
    \/ recover

SpecRecover == InitRecover /\ [][NextRecover]_vars

\* ------------------------------------------------- one call, observed
\* One call of score_service_with_tools on its own, for every value of
\* --max-tool-iterations from 0 to the default.  hist counts, from the
\* responses alone, the model calls of the current attempt and the attempts
\* that have failed, and keeps the last response.
\* What the model may answer in a call followed for its retries and waits.
ScoreResponses == Responses \cup {Response(TooManyTokensError, "", <<>>)}

\* Vectors of per-criterion values, in hundredths: none to MaxCriteria equal
\* values below, inside and above the scale, and vectors of seven.
MaxCriteria == 8
CriteriaValues == {0, 550, 1100}
SixTwosAndFive == [i \in 1..ExpectedScores |-> IF i = 1 THEN 500 ELSE 200]
ValueVectors ==
    {[i \in 1..n |-> v] : n \in 0..MaxCriteria, v \in CriteriaValues}
        \cup {SevenTwos, OneToSeven, SixTwosAndFive}

\* Values that are neither a number nor {"score": x} with a number x.
OtherValues ==
    {NoScoreDict, JsonString("high"), JsonString("5"), JsonNull, JsonList,
     ScoreDict(None)}

\* The values of a scores object with these numbers: each {"score": x},
\* each a bare number, the two mixed, the first another value, or the
\* first a dict with no "score" and the second a string.
ShapesOf(values) ==
    { [i \in 1..Len(values) |-> ScoreDict(values[i])],
      [i \in 1..Len(values) |-> BareNumber(values[i])],
      [i \in 1..Len(values) |->
          IF i % 2 = 1 THEN ScoreDict(values[i]) ELSE BareNumber(values[i])] }
      \cup { [i \in 1..Len(values) |->
                 IF i = 1 THEN other ELSE ScoreDict(values[i])] :
              other \in OtherValues }
      \cup { [i \in 1..Len(values) |->
                 IF i = 1 THEN NoScoreDict
                 ELSE IF i = 2 THEN JsonString("high")
                 ELSE BareNumber(values[i])] }

\* The criteria of a scores object: the values under the expected names or
\* under other names.
CriteriaOf(values) ==
    UNION {{Expected(shape), Renamed(shape)} : shape \in ShapesOf(values)}

\* The JSON objects of an answer with this scores object.
ObjectsOf(criteria) ==
    {AtScores(criteria), AtProperties(criteria), BesideProperties(criteria)}

\* The texts of an answer that holds the JSON object data, as content blocks.
LayoutsOf(data) ==
    { <<TextBlock(<<Object(data)>>)>>,
      <<TextBlock(<<Prose, Object(data), Prose>>)>>,
      <<TextBlock(<<Fenced(data)>>)>>,
      <<TextBlock(<<Prose, Fenced(data), Prose>>)>>,
      <<TextBlock(<<Prose>>), TextBlock(<<Fenced(data)>>)>>,
      <<TextBlock(<<Object(data), Fenced(data)>>)>>,
      <<TextBlock(<<Braces, Object(data)>>)>>,
      <<TextBlock(<<Braces, Fenced(data)>>)>>,
      <<TextBlock(<<FencedBad, Object(data)>>)>>,
      <<TextBlock(<<Object(NoScoresObject), Object(data)>>)>>,
      <<TextBlock(<<Fenced(NoScoresObject), Fenced(data)>>)>> }

\* Final answers for the parser: every layout of every object of every
\* vector, and answers with no scores object, a list at "scores", a fence
\* around a number or a list, no JSON, or no text; they are given where the
\* call is followed for its parsing.
ParserResponses ==
    IF mpc # "parse" THEN {} ELSE
    UNION { UNION { UNION { {ResponseOf("", "end_turn", content) :
                                content \in LayoutsOf(data)} :
                            data \in ObjectsOf(criteria)} :
                    criteria \in CriteriaOf(values)} :
            values \in ValueVectors}
      \cup { ResponseOf("", "end_turn", <<TextBlock(<<Object(NoScoresObject)>>)>>),
             ResponseOf("", "end_turn", <<TextBlock(<<Object(ScoresList)>>)>>),
             ResponseOf("", "end_turn",
                        <<TextBlock(<<Fenced(BareNumber(500))>>)>>),
             ResponseOf("", "end_turn", <<TextBlock(<<Fenced(JsonList)>>)>>),
             ResponseOf("", "end_turn", <<TextBlock(<<Prose>>)>>),
             ResponseOf("", "end_turn", <<TextBlock(<<Braces>>)>>),
             ResponseOf("", "end_turn", <<TextBlock(<<FencedBad>>)>>),
             ResponseOf("", "end_turn", <<>>) }

\* The tool requests a model makes: a lookup, a lookup with no service_name,
\* a search, a search for an unknown provider, and a tool that does not exist.
MaxToolRequests == 2
ToolUseIds == [i \in 1..MaxToolRequests |-> "tooluse_" \o ToString(i)]
RequestKinds ==
    { [name |-> "get_aws_service_docs", input |-> [service_name |-> "a"]],
      [name |-> "get_aws_service_docs", input |-> [focus_areas |-> "pricing"]],
      [name |-> "search_cloud_provider_docs",
       input |-> [service_name |-> "a", provider |-> "GCP"]],
      [name |-> "search_cloud_provider_docs",
       input |-> [service_name |-> "a", provider |-> "Oracle"]],
      [name |-> "run_shell", input |-> [service_name |-> "a"]] }

\* Tool-use responses: up to MaxToolRequests requests, after a text block
\* or with none.
ToolContents ==
    LET requests == UNION {[1..n -> RequestKinds] : n \in 1..MaxToolRequests}
        blocks(r) == [i \in 1..Len(r) |->
                        ToolUseBlock(ToolUseIds[i], r[i].name, r[i].input)]
    IN {blocks(r) : r \in requests}
         \cup {<<TextBlock(<<Prose>>)>> \o blocks(r) : r \in requests}

ToolResponses == {ResponseOf("", "tool_use", content) : content \in ToolContents}

\* Tool rounds with more than the one plain request are limited in number.
MaxRichRounds == 1
MaxModels == 2
IsRich(response) == response \in ToolResponses \ Responses

\* The responses the followed call may get, by what it is followed for.
CallResponses ==
    IF mpc = "parse" THEN ParserResponses
    ELSE IF mpc = "tools" THEN Responses \cup ToolResponses
    ELSE ScoreResponses

CallModes == {"score", "parse", "tools", "service"}

\* The service of the call that is followed on its own.
FollowedService == [provider |-> "AWS", service_name |-> "a"]

\* The state when score_service_with_tools is entered for services[1]: the
\* first attempt has copied the seed conversation and is at its first model
\* call.
CallEntry(mode) ==
    /\ input = <<>>
    /\ append_mode = FALSE
    /\ output_file = NdjsonPath
    /\ max_workers = 1
    /\ file0 = <<>>
    /\ fs = [p \in Paths |-> <<>>]
    /\ runs = 1
    /\ mpc = mode
    /\ existing_scores = <<>>
    /\ results = <<>>
    /\ completed_count = 0
    /\ task = <<>>
    /\ finished_futures = <<>>
    /\ failed_services = <<>>
    /\ idx = 0
    /\ wr = NoWrite
    /\ seen = NoneSeen
    /\ ctx = StartCall
    /\ hist = StartHist
    /\ heap = new_messages(NoMessages).heap
    /\ messages = new_messages(NoMessages).messages
    /\ wait_time \in {WaitOf(StartCall, jitter) : jitter \in Jitters}
    /\ selected_models = <<>>
    /\ tally = NoTally

\* The call is for one service, with the default --use-tools and the model
\* of the session.
OneCall(mode) ==
    /\ services = <<FollowedService>>
    /\ model_config = get_model_config(SessionModel)
    /\ tooling = StartTooling(TRUE, model_config.config, services[1])
    /\ CallEntry(mode)

\* Profiles as get_model_config gives them, one whose supports_tools is
\* false and one that has no supports_tools.
Profiles ==
    {MODEL_CONFIG[name] : name \in DOMAIN MODEL_CONFIG}
        \cup {[MODEL_CONFIG[SessionModel] EXCEPT !.supports_tools = FALSE],
              pop(MODEL_CONFIG[SessionModel], "supports_tools")}

\* The call is for any service, with or without --no-tools, with any
\* profile, and any --max-tool-iterations up to the default.
InitService ==
    /\ max_tool_iterations \in 0..DefaultMaxToolIterations
    /\ budget = None
    /\ services \in {<<service>> : service \in ServicePool}
    /\ model_config \in {Resolved(SessionModel, profile) : profile \in Profiles}
    /\ tooling \in {StartTooling(use_tools, model_config.config, services[1]) :
                      use_tools \in BOOLEAN}
    /\ CallEntry("service")

InitScore ==
    /\ max_tool_iterations \in 0..DefaultMaxToolIterations
    /\ budget = None
    /\ OneCall("score")

InitParse ==
    /\ max_tool_iterations = DefaultMaxToolIterations
    /\ budget = None
    /\ OneCall("parse")

InitTools ==
    /\ max_tool_iterations \in 1..DefaultMaxToolIterations
    /\ budget = MaxRichRounds
    /\ OneCall("tools")

ScoreOnly ==
    UNCHANGED Session /\ UNCHANGED tally /\
    UNCHANGED <<input, append_mode, output_file, max_workers,
                max_tool_iterations, fs, file0, runs, mpc, services,
                existing_scores, results, completed_count, task,
                finished_futures, failed_services, idx, wr, seen>>

\* One model call of the followed call and all that follows it up to the
\* next model call, the sleep or the return.
score_converse ==
    /\ mpc \in CallModes
    /\ ctx.pc = "call"
    /\ \E response \in CallResponses :
        /\ IsRich(response) => CanDetour
        /\ budget' = Spend(IsRich(response))
        /\ ctx' = OnResponse(ctx, response)
        /\ hist' = Heard(hist, ctx, response)
        /\ heap' \in {messages_after(heap, messages, response, backend) :
                        backend \in Backends}
        /\ wait_time' \in {WaitOf(ctx', jitter) : jitter \in Jitters}
    /\ tooling' = Passed(tooling)
    /\ UNCHANGED messages
    /\ ScoreOnly

\* The sleep is over: the next attempt copies the seed conversation.
score_backoff ==
    /\ mpc \in CallModes
    /\ ctx.pc = "sleep"
    /\ ctx' = AfterSleep(ctx)
    /\ hist' = Slept(hist)
    /\ heap' = new_messages(heap).heap
    /\ messages' = new_messages(heap).messages
    /\ wait_time' \in {WaitOf(ctx', jitter) : jitter \in Jitters}
    /\ tooling' = StartTooling(tooling.use_tools, model_config.config,
                               services[1])
    /\ UNCHANGED budget
    /\ ScoreOnly

NextScore == score_converse \/ score_backoff

SpecScore == InitScore /\ [][NextScore]_vars

SpecParse == InitParse /\ [][NextScore]_vars

SpecTools == InitTools /\ [][NextScore]_vars

SpecService == InitService /\ [][NextScore]_vars

\* ------------------------------------------------------------ followed run
\* A run in which the attempts and the model calls of one of its services are
\* counted: one or two services of different names, --max-tool-iterations 1
\* or the default, a fresh run or an append run on an empty file.
InitFollow ==
    /\ input \in {in \in SeqsUpTo(ServicePool, MaxServices) :
                    /\ Len(in) > 0
                    /\ \A i, j \in 1..Len(in) :
                           in[i].service_name = in[j].service_name => i = j}
    /\ append_mode \in BOOLEAN
    /\ output_file = NdjsonPath
    /\ max_workers = MaxWorkers
    /\ max_tool_iterations \in {1, DefaultMaxToolIterations}
    /\ file0 = <<>>
    /\ fs = [p \in Paths |-> <<>>]
    /\ budget = None
    /\ tally \in {[NoTally EXCEPT !.name = input[i].service_name] :
                    i \in 1..Len(input)}
    /\ FreshProcess

SpecFollow == InitFollow /\ [][Next]_vars

\* ------------------------------------------------------------ fair run
\* A run whose steps are all taken in the end: the pool runs every task it
\* can run, every model call, sleep and file write comes to its end, main
\* goes on.  One or two services of different names, two pool threads, an
\* environment that takes at most MaxDetours detours.
InitLive ==
    /\ input \in {in \in SeqsUpTo(ServicePool, MaxServices) :
                    Len(in) > 0 /\ Distinct(Names(in))}
    /\ append_mode \in BOOLEAN
    /\ output_file = NdjsonPath
    /\ max_workers = MaxWorkers
    /\ max_tool_iterations = DefaultMaxToolIterations
    /\ file0 = <<>>
    /\ fs = [p \in Paths |-> <<>>]
    /\ budget = MaxDetours
    /\ tally = NoTally
    /\ FreshProcess

SpecLive == InitLive /\ [][Next]_vars /\ WF_vars(Next)

\* ------------------------------------------------------------ model names
\* The names get_model_config is asked: the canonical names, the aliases,
\* 'all' (which main replaces before the sessions) and a name of no model.
AskedNames == Range(ModelNames) \cup Range(AliasNames) \cup {"all", "gpt-4"}

\* model_config.get_all_model_names
get_all_model_names == ModelNames

\* main: 'all' among --models selects every canonical name.
Selected(args_models) ==
    IF "all" \in Range(args_models) THEN get_all_model_names ELSE args_models

\* The names are looked up one after the other, as main's loop over the
\* selected models does; any list of up to MaxModels names is asked.
InitModels ==
    /\ input = <<>>
    /\ append_mode = FALSE
    /\ output_file = NdjsonPath
    /\ max_workers = 1
    /\ max_tool_iterations = DefaultMaxToolIterations
    /\ file0 = <<>>
    /\ fs = [p \in Paths |-> <<>>]
    /\ budget = None
    /\ tally = NoTally
    /\ runs = 1
    /\ mpc = "models"
    /\ services = <<>>
    /\ existing_scores = <<>>
    /\ results = <<>>
    /\ completed_count = 0
    /\ task = <<>>
    /\ finished_futures = <<>>
    /\ failed_services = <<>>
    /\ idx = 0
    /\ ctx = IdleCall
    /\ wr = NoWrite
    /\ hist = NoHist
    /\ seen = NoneSeen
    /\ heap = NoMessages
    /\ messages = NoList
    /\ wait_time = None
    /\ tooling = NoTooling
    /\ selected_models \in
        {Selected(args_models) :
            args_models \in SeqsUpTo(AskedNames, MaxModels) \ {<<>>}}
    /\ model_config = Resolved("", NoProfile)

\* for model_name in selected_models: model_config = get_model_config(...);
\* the ValueError of an unknown name is not caught and ends main.
select_model ==
    /\ mpc = "models"
    /\ Len(selected_models) > 0
    /\ model_config' = get_model_config(Head(selected_models))
    /\ selected_models' = Tail(selected_models)
    /\ mpc' = IF model_config'.raised THEN "raised" ELSE mpc
    /\ UNCHANGED CallLocals /\ UNCHANGED tally /\ UNCHANGED tooling
    /\ UNCHANGED <<input, append_mode, output_file, max_workers,
                   max_tool_iterations, fs, file0, budget, runs, services,
                   existing_scores, results, completed_count, task,
                   finished_futures, failed_services, idx, ctx, wr, hist,
                   seen>>

NextModels == select_model

SpecModels == InitModels /\ [][NextModels]_vars

\* ------------------------------------------------- the loop over the models
\* The names argparse accepts for --models.
ModelChoices == Range(get_all_model_names) \cup {"all"}

\* An append-mode invocation with up to MaxModels names after --models, on a
\* destination file that holds lines of earlier runs; main is at the head of
\* its loop over the selected models, no model taken yet.
InitLoop ==
    /\ input \in {in \in SeqsUpTo(ServicePool, MaxServices) :
                    Len(in) > 0 /\ Distinct(Names(in))}
    /\ append_mode = TRUE
    /\ output_file = NdjsonPath
    /\ max_workers = 1
    /\ max_tool_iterations = DefaultMaxToolIterations
    /\ file0 \in SeqsUpTo(ExistingPool, MaxExisting)
    /\ fs = [p \in Paths |-> IF p = output_file THEN file0 ELSE <<>>]
    /\ budget = None
    /\ tally = NoTally
    /\ runs = 1
    /\ mpc = "loop"
    /\ services = input
    /\ existing_scores = <<>>
    /\ results = <<>>
    /\ completed_count = 0
    /\ task = <<>>
    /\ finished_futures = <<>>
    /\ failed_services = <<>>
    /\ idx = 0
    /\ ctx = IdleCall
    /\ wr = NoWrite
    /\ hist = NoHist
    /\ seen = NoneSeen
    /\ heap = NoMessages
    /\ messages = NoList
    /\ wait_time = None
    /\ tooling = NoTooling
    /\ selected_models \in
        {Selected(args_models) :
            args_models \in SeqsUpTo(ModelChoices, MaxModels) \ {<<>>}}
    /\ model_config = Resolved("", NoProfile)

\* The result dict of a service under a model's score field, after both
\* passes.
ResultUnder(service, field, score) == Identity(service) @@ (field :> score)

\* Lines 641-836, one turn of the loop over the selected models in append
\* mode, from get_model_config to the summary: the destination file is
\* loaded for the model's score field, the services it holds a score for are
\* taken out of services, and when one is left every service of services is
\* submitted and ends with a score or with none; the file is rewritten with
\* the loaded records and the scored results, and the failed-services file
\* is written when a result has no score.  file0 is the destination file as
\* the turn found it.  An exception of the second pass ends main before
\* the files are written.
model_session ==
    /\ mpc = "loop"
    /\ Len(selected_models) > 0
    /\ LET config == get_model_config(Head(selected_models))
           field == config.config.score_field
           scored == load_existing_scores(fs[output_file], field)
           todo == services_to_score(services, scored)
           svcs == IF Len(todo) < Len(services) THEN todo ELSE services
       IN /\ model_config' = config
          /\ selected_models' = Tail(selected_models)
          /\ file0' = fs[output_file]
          /\ existing_scores' = scored
          /\ services' = svcs
          /\ IF Len(svcs) = 0
             THEN /\ mpc' = "loop"
                  /\ UNCHANGED <<fs, results>>
             ELSE \E scores \in [1..Len(svcs) -> {None, RoundDiv(Sum(SevenTwos), ExpectedScores)}],
                     raises \in BOOLEAN :
                    LET rs == [i \in 1..Len(svcs) |->
                                 ResultUnder(svcs[i], field, scores[i])]
                        new == SelectRecs(rs, [i \in 1..Len(rs) |->
                                                 rs[i][field] # None])
                        final_failed ==
                            SelectRecs(rs, [i \in 1..Len(rs) |->
                                              rs[i][field] = None])
                        written == [fs EXCEPT ![output_file] = scored \o new]
                    IN /\ raises => Len(final_failed) > 0
                       /\ results' = rs
                       /\ mpc' = IF raises THEN "aborted" ELSE "loop"
                       /\ fs' = IF raises THEN fs
                                ELSE IF Len(final_failed) = 0 THEN written
                                ELSE [written EXCEPT
                                        ![failed_path(output_file)] =
                                            failed_entries(final_failed)]
    /\ UNCHANGED CallLocals /\ UNCHANGED tally /\ UNCHANGED tooling
    /\ UNCHANGED <<input, append_mode, output_file, max_workers,
                   max_tool_iterations, budget, runs, completed_count, task,
                   finished_futures, failed_services, idx, ctx, wr, hist,
                   seen>>

NextLoop == model_session

SpecLoop == InitLoop /\ [][NextLoop]_vars

\* ------------------------------------------------------------ claims

\* C1: one call of score_service_with_tools makes at most max_retries
\* attempts; every failed attempt, whatever its cause, uses up exactly one
\* attempt (the attempt index is the number of failed attempts); a returned
\* score is the parse of the final answer of the first attempt that did not
\* fail; and the call returns None exactly when max_retries attempts failed.
C1_RetryContract ==
    /\ ctx.attempt \in 0..(max_retries - 1)
    /\ ctx.pc = "call" => hist.fails = ctx.attempt
    /\ ctx.pc = "sleep" => hist.fails = ctx.attempt + 1
    /\ (ctx.pc = "returned" /\ ctx.score # None) =>
          /\ hist.fails = ctx.attempt
          /\ hist.response.error = ""
          /\ ~is_tool_use_response(hist.response)
          /\ parse_score_response(hist.response) = Returns(ctx.score)
    /\ ctx.pc = "returned" => (ctx.score = None <=> hist.fails = max_retries)

\* C1's case: the last attempt returns a score after two failed attempts.
C1_Witness ==
    /\ ctx.pc = "returned"
    /\ ctx.score = 400
    /\ ctx.attempt = max_retries - 1
    /\ hist.fails = max_retries - 1

\* C2: within one attempt the model is called at most max_tool_iterations
\* times; an attempt whose calls were all answered with tool_use has failed
\* with the maximum-tool-iterations error once the counter reaches the
\* maximum, and is in the retry logic: asleep before the next attempt, or
\* returned None when it was the last one.
C2_ToolLoopBound ==
    /\ hist.calls <= max_tool_iterations
    /\ ctx.tool_iterations <= max_tool_iterations
    /\ ctx.tool_iterations = max_tool_iterations =>
          /\ ctx.error = MaxToolError
          /\ IF ctx.attempt < max_retries - 1
             THEN ctx.pc = "sleep"
             ELSE ctx.pc = "returned" /\ ctx.score = None

\* C2's case: three tool-use answers in a row have failed the attempt.
C2_Witness ==
    /\ max_tool_iterations = DefaultMaxToolIterations
    /\ hist.calls = max_tool_iterations
    /\ ctx.tool_iterations = max_tool_iterations
    /\ is_tool_use_response(hist.response)
    /\ ctx.pc = "sleep"
    /\ ctx.error = MaxToolError

\* C3: after a run that went through both passes, with distinct input names,
\* every service left without a score has exactly one record in the
\* failed-services file, with no other key than provider, service_name and
\* service_alias, and has no record in the scores file.
C3_FailedOnlyInFailedFile ==
    (mpc = "done" /\ Len(services) > 0 /\ Distinct(Names(input))) =>
        \A i \in 1..Len(results) :
            results[i][score_field] = None =>
                LET name == results[i].service_name
                    failed_file == fs[failed_path(output_file)]
                    hits == {j \in 1..Len(failed_file) :
                                failed_file[j].service_name = name}
                IN /\ Cardinality(hits) = 1
                   /\ \A j \in hits :
                        /\ DOMAIN failed_file[j] \subseteq
                              {"provider", "service_name", "service_alias"}
                        /\ failed_file[j].provider = results[i].provider
                   /\ name \notin Range(Names(fs[output_file]))

\* C4: when a fresh run on distinct names is over, each input service has
\* exactly one line, in the scores file when a call for it returned a score
\* in either pass and in the failed-services file otherwise, and the two
\* files together have as many lines as the input has services.
C4_FreshPartition ==
    (mpc = "done" /\ ~append_mode /\ Distinct(Names(input))) =>
        LET scores_file == fs[output_file]
            failed_file == fs[failed_path(output_file)]
        IN /\ \A i \in 1..Len(input) :
                LET name == input[i].service_name IN
                IF name \in seen.produced
                THEN /\ Count(Names(scores_file), name) = 1
                     /\ Count(Names(failed_file), name) = 0
                ELSE /\ Count(Names(scores_file), name) = 0
                     /\ Count(Names(failed_file), name) = 1
           /\ Len(scores_file) + Len(failed_file) = Len(input)

\* C4's case: of two services, one was scored only by the second pass and
\* one never; each file has one line.
C4_Witness ==
    /\ mpc = "done"
    /\ ~append_mode
    /\ Len(input) = MaxServices
    /\ Distinct(Names(input))
    /\ Cardinality(seen.produced) = 1
    /\ Len(failed_services) = MaxServices
    /\ Len(fs[output_file]) = 1
    /\ Len(fs[failed_path(output_file)]) = 1

\* C5: an append run whose input services all have a non-null score in the
\* destination file calls the model for nothing and opens no file; the
\* destination file holds what it held before the run, in every run of a
\* repetition.
C5_NoOpWhenAllScored ==
    (/\ append_mode
     /\ \A i \in 1..Len(input) :
          \E j \in 1..Len(file0) :
            /\ file0[j].service_name = input[i].service_name
            /\ get(file0[j], score_field) # None) =>
        /\ seen.called = {}
        /\ task = <<>>
        /\ ctx = IdleCall
        /\ mpc \in {"start", "done"}
        /\ wr = NoWrite
        /\ fs[output_file] = file0

\* C5's case: the second of two runs on an input that is scored already is
\* over.
C5_Witness ==
    /\ append_mode
    /\ Len(input) = MaxServices
    /\ Distinct(Names(input))
    /\ \A i \in 1..Len(input) :
          \E j \in 1..Len(file0) :
            /\ file0[j].service_name = input[i].service_name
            /\ get(file0[j], score_field) # None
    /\ runs = MaxRuns
    /\ mpc = "done"
    /\ fs[output_file] = file0

\* C6, as stated: in append mode no service with a non-null score for the
\* run's field in the destination file is sent to the model, in either pass,
\* and after a run on a non-empty input of distinct names no service_name is
\* on more than one line of the destination file.
C6_AsStated ==
    /\ append_mode =>
          \A j \in 1..Len(file0) :
              get(file0[j], score_field) # None =>
                  file0[j].service_name \notin seen.called
    /\ (/\ mpc = "done"
        /\ append_mode
        /\ Len(input) > 0
        /\ Distinct(Names(input))) =>
          Distinct(Names(fs[output_file]))

\* C6, amended: no service with a non-null score for the run's field in the
\* destination file is sent to the model, in either pass; after a run on
\* distinct input names that had a service left to score, no service_name
\* is on more than one line of the destination file, and a run that had
\* none leaves the file as it was, repeated names included.
C6_NoRequeryNoDuplicate ==
    /\ append_mode =>
          \A j \in 1..Len(file0) :
              get(file0[j], score_field) # None =>
                  file0[j].service_name \notin seen.called
    /\ (mpc = "done" /\ append_mode /\ Distinct(Names(input))) =>
          IF Len(services) > 0
          THEN Distinct(Names(fs[output_file]))
          ELSE fs[output_file] = file0

\* C6's case: of two input services one had a score in the file and one was
\* scored by this run; the file has a line for each.
C6_Witness ==
    /\ mpc = "done"
    /\ append_mode
    /\ Len(input) = MaxServices
    /\ Distinct(Names(input))
    /\ Len(services) = 1
    /\ \E j \in 1..Len(file0) :
          /\ get(file0[j], score_field) # None
          /\ file0[j].service_name \in Range(Names(input))
          /\ file0[j].service_name \notin seen.called
    /\ Cardinality(seen.produced) = 1
    /\ Len(fs[output_file]) = MaxServices
    /\ Distinct(Names(fs[output_file]))

\* C7: when an append run on distinct names that had a service to score is
\* over, the destination file holds the records it held before the run with
\* a non-null score for the run's field, one per service_name, followed by
\* the records of the services this run scored, and nothing else.
C7_AppendResult ==
    (/\ mpc = "done"
     /\ append_mode
     /\ Len(services) > 0
     /\ Distinct(Names(input))) =>
        LET old == load_existing_scores(file0, score_field)
            new_file == fs[output_file]
            added == {j \in 1..Len(new_file) : j > Len(old)}
        IN /\ Len(new_file) >= Len(old)
           /\ SubSeq(new_file, 1, Len(old)) = old
           /\ {new_file[j].service_name : j \in added} = seen.produced
           /\ Cardinality(added) = Cardinality(seen.produced)
           /\ \A j \in added : get(new_file[j], score_field) # None

\* C8: while the append-mode final rewrite or a checkpoint has the output
\* file open, the file holds all of what it held before the write or all of
\* what is being written.
C8_CrashAtomicWrite ==
    (/\ mpc = "writing"
     /\ wr.path = output_file
     /\ append_mode \/ wr.next = "pool") =>
        \/ fs[output_file] = wr.before
        \/ fs[output_file] = wr.content

\* C9: in the concurrent pass, once the number of completed tasks is a
\* positive multiple of CheckpointEvery and the checkpoint's write, if any,
\* is over, the output file holds every result with a non-null score,
\* whether the last task completed returned a result or raised.
C9_CheckpointEveryN ==
    (/\ mpc = "pool"
     /\ completed_count > 0
     /\ completed_count % CheckpointEvery = 0) =>
        fs[output_file] = Successful(results)

\* C10: at every point of both passes where no file is open, at most
\* CheckpointEvery of the results that have a score are missing from the
\* output file.
C10_AtMostNUnsaved ==
    mpc \in {"pool", "second", "final"} =>
        Cardinality({i \in 1..Len(results) :
                        /\ results[i][score_field] # None
                        /\ results[i] \notin Range(fs[output_file])})
            <= CheckpointEvery

\* C11: every write of this run's results to the output file, checkpoint or
\* final, holds every record that the last checkpoint of the run wrote: a
\* record once written with a score is in every later write.
C11_CheckpointsGrow ==
    (mpc = "writing" /\ wr.path = output_file) =>
        Range(seen.saved) \subseteq Range(wr.content)

\* C11's case: the final write follows a checkpoint and holds more records.
C11_Witness ==
    /\ mpc = "writing"
    /\ wr.path = output_file
    /\ wr.next = "failed"
    /\ Len(seen.saved) > 0
    /\ Len(wr.content) > Len(seen.saved)
    /\ Range(seen.saved) \subseteq Range(wr.content)

\* C12: the second pass runs once every task of the pool has completed and
\* been collected; it takes the services left without a score by the pool,
\* in the order of failed_services, each once, with no pool call in flight;
\* each retry has max_retries attempts of its own; and a service scored by
\* a pool thread is not taken.
C12_SecondPass ==
    /\ mpc = "second" =>
          /\ \A i \in 1..Len(task) : task[i].pc = "collected"
          /\ Running = {}
          /\ completed_count = Len(task)
          /\ Len(seen.retried) = (IF ctx.pc = "idle" THEN idx - 1 ELSE idx)
          /\ ctx.pc = "call" => hist.fails = ctx.attempt
          /\ ctx.pc = "sleep" => hist.fails = ctx.attempt + 1
          /\ ctx.pc = "returned" =>
                (ctx.score = None <=> hist.fails = max_retries)
    /\ Len(seen.retried) <= Len(failed_services)
    /\ \A k \in 1..Len(seen.retried) :
          seen.retried[k] = failed_services[k].service_name
    /\ (\/ mpc \in {"final", "failed", "summary", "done"}
        \/ mpc = "writing" /\ wr.next # "pool") =>
          Len(seen.retried) = Len(failed_services)
    /\ (/\ Distinct(Names(input))
        /\ \/ mpc \in {"second", "final", "failed", "summary", "done"}
           \/ mpc = "writing" /\ wr.next # "pool") =>
          /\ Range(Names(failed_services)) =
                Range(Names(services)) \ seen.first
          /\ seen.first \cap Range(seen.retried) = {}

\* C12's case: both services failed in the pool; the second retry has failed
\* its three attempts.
C12_Witness ==
    /\ mpc = "second"
    /\ Distinct(Names(input))
    /\ Len(failed_services) = MaxServices
    /\ idx = MaxServices
    /\ Len(seen.retried) = MaxServices
    /\ ctx.pc = "returned"
    /\ ctx.score = None
    /\ hist.fails = max_retries

\* C13: every result whose score is None has an error text.
C13_NullScoreHasError ==
    \A i \in 1..Len(results) :
        results[i][score_field] = None =>
            /\ "error" \in DOMAIN results[i]
            /\ results[i].error # ""

\* The followed call has just received a final answer from the model.
Answered ==
    /\ hist.calls > 0
    /\ hist.response.error = ""
    /\ ~is_tool_use_response(hist.response)
    /\ ctx.pc \in {"sleep", "returned"}

\* The scores objects of a JSON object: at properties.scores, at scores.
ScoresAt(data) ==
    LET objects(at) == IF "scores" \in DOMAIN at /\ "items" \in DOMAIN at.scores
                       THEN {at.scores.items} ELSE {}
    IN (IF "properties" \in DOMAIN data THEN objects(data.properties) ELSE {})
          \cup objects(data)

\* The scores objects of the JSON objects a text holds.
HeldScores(text) ==
    UNION {ScoresAt(text[i].data) :
              i \in {j \in 1..Len(text) : text[j].kind \in {"object", "fenced"}}}

\* Each criterion is {"score": x} or a bare number x.
AllNumeric(criteria) ==
    \A i \in 1..Len(criteria) :
        \/ "number" \in DOMAIN criteria[i]
        \/ "score" \in DOMAIN criteria[i] /\ criteria[i].score # None

\* score is the mean of the criteria's values rounded to hundredths: the
\* values are hundredths, and score is within half a hundredth of the mean.
IsMeanOf(score, criteria) ==
    LET total == Sum([i \in 1..Len(criteria) |->
                        IF "score" \in DOMAIN criteria[i]
                        THEN criteria[i].score ELSE criteria[i].number])
        off == 2 * (Len(criteria) * score - total)
    IN score # None /\ off <= Len(criteria) /\ 0 - Len(criteria) <= off

\* C14: every score other than None that the parser produces, and that the
\* call returns to be stored in a result, satisfies 1.00 <= score <= 10.00,
\* whatever the per-criterion values of the response.
C14_ScoreInRange ==
    (ctx.pc = "returned" /\ ctx.score # None) =>
        (100 <= ctx.score /\ ctx.score <= 1000)

Leading(text) ==
    LET fences == {i \in 1..Len(text) :
                      text[i].kind \in {"fenced", "fenced_bad"}}
        braces == {i \in 1..Len(text) :
                      text[i].kind \in {"braces", "object"}}
    IN IF fences # {} THEN {i \in fences : \A j \in fences : i <= j}
       ELSE {i \in braces : \A j \in braces : i <= j}

C16_NotSevenNoScore ==
    LET held == HeldScores(extract_text_from_response(hist.response)) IN
    (Answered /\ held # {} /\ \A criteria \in held : Len(criteria) # ExpectedScores)
        => /\ parse_score_response(hist.response) = Returns(None)
           /\ ctx.score = None
           /\ ctx.error = ParseError
           /\ hist.fails = ctx.attempt + 1

\* Eight in-range scores at scores: the attempt fails and the call sleeps.
C16_Witness ==
    /\ Answered
    /\ ctx.pc = "sleep"
    /\ ctx.error = ParseError
    /\ hist.response.content =
          <<TextBlock(<<Object(AtScores(Expected(
              [i \in 1..(ExpectedScores + 1) |-> ScoreDict(550)])))>>)>>

\* C17: when attempt k (from 0) fails and is not the last, the sleep before
\* the next attempt lies in [5 * 2^k * 0.5, 5 * 2^k * 1.5] seconds if the
\* failure text is a ThrottlingException or "Too many tokens" one, and in
\* [2^k * 0.5, 2^k * 1.5] otherwise; a parse failure and a tool-iteration
\* overflow take the second bounds; no sleep follows the last attempt.
\* Times are in tenths of a second.
C17_BackoffBounds ==
    LET k == ctx.attempt
        throttled == ctx.error \in {ThrottlingError, TooManyTokensError}
    IN /\ (ctx.pc = "sleep" /\ throttled) =>
              /\ k < max_retries - 1
              /\ 5 * (2 ^ k) * 5 <= wait_time
              /\ wait_time <= 5 * (2 ^ k) * 15
       /\ (ctx.pc = "sleep" /\ ~throttled) =>
              /\ k < max_retries - 1
              /\ (2 ^ k) * 5 <= wait_time
              /\ wait_time <= (2 ^ k) * 15
       /\ (ctx.pc = "sleep" /\ ctx.error \in {ParseError, MaxToolError}) =>
              wait_time <= (2 ^ k) * 15
       /\ ctx.pc # "sleep" => wait_time = None
       /\ (ctx.pc = "returned" /\ ctx.score = None) =>
              (k = max_retries - 1 /\ wait_time = None)

\* The second attempt fails on "Too many tokens" and sleeps 15 seconds, the
\* longest wait there is.
C17_Witness ==
    /\ mpc = "score"
    /\ ctx.pc = "sleep"
    /\ ctx.attempt = 1
    /\ ctx.error = TooManyTokensError
    /\ wait_time = 150

\* The followed call has just made a tool round: the last response asked
\* for tools.
ToolRound ==
    /\ hist.calls > 0
    /\ hist.response.error = ""
    /\ is_tool_use_response(hist.response)

\* The tool requests of the last response, in its order.
Requested ==
    LET content == hist.response.content
    IN SelectRecs([i \in 1..Len(content) |->
                      IF "toolUse" \in DOMAIN content[i]
                      THEN content[i].toolUse ELSE [none |-> TRUE]],
                  [i \in 1..Len(content) |-> "toolUse" \in DOMAIN content[i]])

\* The last message of the followed call's conversation, and the one
\* before it.
LastTurn == heap[messages][Len(heap[messages])]
TurnBefore == heap[messages][Len(heap[messages]) - 1]

\* C18: after every tool-use response the conversation ends with the
\* assistant turn that made the requests and, directly after it, one user
\* turn that holds exactly one tool result per request, in the order of the
\* requests, each with the toolUseId of its request; every tool round adds
\* these two turns and nothing else.
C18_OneResultPerRequest ==
    /\ Len(heap[messages]) = 3 + 2 * ctx.tool_iterations
    /\ \A i \in 4..Len(heap[messages]) :
          heap[messages][i].role = (IF i % 2 = 0 THEN "assistant" ELSE "user")
    /\ ToolRound =>
          /\ ctx.tool_iterations > 0
          /\ TurnBefore = [role |-> "assistant", content |-> hist.response.content]
          /\ LastTurn.role = "user"
          /\ Len(LastTurn.content) = Len(Requested)
          /\ \A i \in 1..Len(Requested) :
                /\ DOMAIN LastTurn.content[i] = {"toolResult"}
                /\ LastTurn.content[i].toolResult.toolUseId = Requested[i].toolUseId
                /\ LastTurn.content[i].toolResult.status \in {"success", "error"}

\* The second tool round of an attempt: a text block, a request for a tool
\* that does not exist and a lookup; the turn of results answers both.
C18_Witness ==
    /\ ToolRound
    /\ ctx.tool_iterations = 2
    /\ Len(hist.response.content) = 3
    /\ Len(Requested) = 2
    /\ Requested[1].name = "run_shell"
    /\ Requested[2].name = "get_aws_service_docs"
    /\ LastTurn.content[1].toolResult.status = "error"
    /\ LastTurn.content[2].toolResult.status = "success"
    /\ LastTurn.content[2].toolResult.toolUseId = "tooluse_2"

\* What the i-th tool result says.
ResultText(i) == LastTurn.content[i].toolResult.content[1].text[1].says

\* The i-th request of the last tool round failed: its tool is unknown, a
\* required field is missing, its provider is unknown, or the search
\* failed or was unavailable.
UnknownTool(i) ==
    Requested[i].name \notin {"get_aws_service_docs", "search_cloud_provider_docs"}
MissingField(i) ==
    /\ ~UnknownTool(i)
    /\ \/ "service_name" \notin DOMAIN Requested[i].input
       \/ /\ Requested[i].name = "search_cloud_provider_docs"
          /\ "provider" \notin DOMAIN Requested[i].input
UnknownProvider(i) ==
    /\ Requested[i].name = "search_cloud_provider_docs"
    /\ ~MissingField(i)
    /\ Requested[i].input.provider \notin {"Azure", "GCP"}
SearchFailed(i) ==
    /\ i <= Len(LastTurn.content)
    /\ ResultText(i) \in {search_documentation("search error"),
                          search_documentation("unavailable")}
ToolFailed(i) ==
    UnknownTool(i) \/ MissingField(i) \/ UnknownProvider(i) \/ SearchFailed(i)

C20_SeedUnchanged ==
    /\ heap[base_conversation] = SeedConversation
    /\ Len(heap[base_conversation]) = 2
    /\ messages # base_conversation
    /\ Len(heap[messages]) >= 3
    /\ SubSeq(heap[messages], 1, 3) = SeedConversation \o <<UserPrompt>>
    /\ (ctx.pc = "call" /\ hist.calls = 0) =>
          heap[messages] = SeedConversation \o <<UserPrompt>>

\* The third attempt starts, after an attempt with a tool round: its
\* conversation is the seed and the prompt again.
C20_Witness ==
    /\ mpc = "tools"
    /\ ctx.pc = "call"
    /\ ctx.attempt = max_retries - 1
    /\ hist.calls = 0
    /\ budget = 0
    /\ heap[messages] = SeedConversation \o <<UserPrompt>>
    /\ heap[base_conversation] = SeedConversation

\* C21: every change of the results list (the appends of the concurrent
\* pass, the score updates of the second pass) is made with results_lock
\* held, and every write of the scores file (checkpoints, the fresh final
\* save, the append-mode rewrite) with file_lock held.
C21_EveryChangeLocked == seen.bare = {}

\* C22: in the concurrent pass at most max_workers tasks run at a time; each
\* running task and each retry has entered its call with a BedrockClient,
\* and no BedrockClient is used by two tasks, or by a task and a retry.
C22_OwnClient ==
    /\ Cardinality(Running) <= max_workers
    /\ \A i \in Running : \E u \in seen.used : u.by = PoolTask(i)
    /\ (mpc = "second" /\ ctx.pc # "idle") =>
          \E u \in seen.used : u.by = Retry(idx)
    /\ \A u, v \in seen.used : u.client = v.client => u.by = v.by

\* Two workers, two tasks in their calls, each with a client of its own.
C22_Witness ==
    /\ max_workers = MaxWorkers
    /\ Cardinality(Running) = MaxWorkers
    /\ Cardinality({u.client : u \in seen.used}) = MaxWorkers

\* C23: the run is never aborted by a failure for one service, in either
\* pass.
C23_NeverAborts == mpc # "aborted"

\* C24: a session that is over has printed its scoring summary once, in
\* fresh mode and in append mode, also when no service was left to score.
C24_SummaryPrinted == (mpc = "done" /\ Len(input) > 0) => seen.summaries = 1

\* A line of the scores file: a score under the run's score field, no error.
ScoredLine(line) ==
    /\ score_field \in DOMAIN line
    /\ line[score_field] # None
    /\ "error" \notin DOMAIN line

\* C25: after every checkpoint and after the final save of a run that had
\* services to score, in both modes, every line of the scores file is a
\* record with a score under the run's score field and without an error
\* field.
C25_ScoresFileLines ==
    /\ (mpc = "pool" /\ Len(seen.saved) > 0) =>
          \A i \in 1..Len(fs[output_file]) : ScoredLine(fs[output_file][i])
    /\ (mpc \in {"failed", "summary", "done"} /\ Len(services) > 0) =>
          \A i \in 1..Len(fs[output_file]) : ScoredLine(fs[output_file][i])

\* C27: when a tool-use response takes the tool-iteration counter to
\* max_tool_iterations the attempt fails with the tools of that response
\* not executed and no turn appended for it: the conversation holds the
\* turns of the earlier rounds only, and a turn of tool results is always
\* followed by a model call.
C27_NoToolsAtTheLimit ==
    /\ (ToolRound /\ ctx.tool_iterations >= max_tool_iterations) =>
          Len(heap[messages]) = 3 + 2 * (ctx.tool_iterations - 1)
    /\ (Len(heap[messages]) > 3 /\ ctx.pc # "call") =>
          \A i \in 1..Len(LastTurn.content) :
              "toolResult" \notin DOMAIN LastTurn.content[i]

\* C26: get_model_config gives a canonical name its own profile and an alias
\* the profile of its canonical name, by one lookup in MODEL_ALIASES; every
\* alias maps to a key of MODEL_CONFIG; any other name raises an error whose
\* message lists the canonical names and then the aliases.
C26_ModelResolved ==
    /\ \A alias \in DOMAIN MODEL_ALIASES :
           MODEL_ALIASES[alias] \in DOMAIN MODEL_CONFIG
    /\ (mpc \in {"models", "raised"} /\ model_config.asked # "") =>
        LET asked == model_config.asked
        IN /\ asked \in Range(ModelNames) =>
                /\ ~model_config.raised
                /\ model_config.config = MODEL_CONFIG[asked]
           /\ asked \in Range(AliasNames) =>
                /\ ~model_config.raised
                /\ model_config.config = MODEL_CONFIG[MODEL_ALIASES[asked]]
           /\ asked \notin Range(ModelNames) \cup Range(AliasNames) =>
                /\ model_config.raised
                /\ mpc = "raised"
                /\ model_config.available = ModelNames \o AliasNames

\* An alias was asked after an unaliased name: 'opus' gave the profile of
\* claude-opus-4.1.
C26_Witness ==
    /\ mpc = "models"
    /\ selected_models = <<>>
    /\ model_config.asked = "opus"
    /\ model_config.config.display_name = "Claude Opus 4.1"
    /\ model_config.config.score_field = other_score_field

\* C28: over a run the attempts made for one service are at most
\* 2 * max_retries and the model calls made for it at most
\* 2 * max_retries * max_tool_iterations; in the concurrent pass, and for a
\* service that the concurrent pass scored, the attempts are at most
\* max_retries (the service being a submitted entry of its own name).
C28_AttemptsBounded ==
    tally.name # "" =>
        /\ tally.attempts <= 2 * max_retries
        /\ tally.calls <= 2 * max_retries * max_tool_iterations
        /\ (mpc \in {"start", "pool"} \/ tally.name \in seen.first) =>
               tally.attempts <= max_retries
        /\ tally.name \in seen.first =>
               \A k \in 1..Len(seen.retried) : seen.retried[k] # tally.name

\* A service failed every attempt of both passes, each attempt with as many
\* model calls as the tool loop allows.
C28_Witness ==
    /\ mpc = "done"
    /\ max_tool_iterations = DefaultMaxToolIterations
    /\ tally.attempts = 2 * max_retries
    /\ tally.calls = 2 * max_retries * max_tool_iterations

\* The names under which the criteria of a scores object stand.
NamesOf(criteria) == {criteria[i].name : i \in 1..Len(criteria)}

\* C29: the call returns a score only for a final answer that holds a scores
\* object in which each of the seven expected criteria, and no other, has a
\* numeric score ({"score": x} or a bare number); seven scores under other
\* names are a parse failure.
C29_ExpectedCriteriaOnly ==
    (Answered /\ ctx.pc = "returned" /\ ctx.score # None) =>
        \E criteria \in HeldScores(extract_text_from_response(hist.response)) :
            /\ NamesOf(criteria) = Range(ExpectedCriteria)
            /\ Len(criteria) = ExpectedScores
            /\ AllNumeric(criteria)

\* C30: parse_score_response raises on no final answer: whatever the
\* criterion values, the scores entry and the JSON value of the answer, it
\* returns, and an attempt that yields no score fails with the parse failure.
C30_NeverRaises ==
    Answered =>
        /\ parse_score_response(hist.response).raised = ""
        /\ ctx.score = None => ctx.error = ParseError

\* C31: after a tool round, every request that names an unknown tool, or a
\* known tool without its required input (no service_name, or no provider
\* for the cloud-docs search), has a tool result with status 'error', and
\* the attempt is at its next model call.
C31_ErrorStatus ==
    (ToolRound /\ \E i \in 1..Len(Requested) : UnknownTool(i) \/ MissingField(i))
        => /\ Len(LastTurn.content) = Len(Requested)
           /\ \A i \in 1..Len(Requested) :
                 (UnknownTool(i) \/ MissingField(i)) =>
                     LastTurn.content[i].toolResult.status = "error"
           /\ ctx.pc = "call"
           /\ hist.fails = ctx.attempt

\* C32: every model call of the followed call gets the two tool
\* specifications if and only if use_tools is on and the profile of the model
\* has supports_tools true (should_use_tools being true for every service
\* and provider), and gets no tool configuration otherwise; the model calls
\* of one attempt all get the same tool configuration.
C32_ToolConfig ==
    /\ \A service \in ServicePool \cup {FollowedService} :
           should_use_tools(service.service_name, service.provider)
    /\ hist.calls > 0 => tooling.passed # {}
    /\ \A a, b \in tooling.passed : a = b
    /\ \A tool_config \in tooling.passed :
           IF /\ tooling.use_tools
              /\ "supports_tools" \in DOMAIN model_config.config
              /\ model_config.config.supports_tools
           THEN tool_config =
                    [tools |-> <<"get_aws_service_docs",
                                 "search_cloud_provider_docs">>]
           ELSE tool_config = NoToolConfig

\* The third model call of a second attempt has got the tools, as the two
\* before it.
C32_Witness ==
    /\ mpc = "service"
    /\ ctx.attempt = 1
    /\ hist.calls = 3
    /\ tooling.use_tools
    /\ tooling.passed = {[tools |-> get_tool_definitions]}

\* With --no-tools a model call has got no tool configuration.
C32_WitnessNoTools ==
    /\ mpc = "service"
    /\ hist.calls = 2
    /\ ~tooling.use_tools
    /\ supports_tools(model_config.config)
    /\ tooling.passed = {NoToolConfig}

\* Who a service or a result is: its provider and its service name.
Who(d) == [provider |-> d.provider, service_name |-> d.service_name]
WhoAll(ds) == [i \in 1..Len(ds) |-> Who(ds[i])]

C34_RunCompletes ==
    <>(mpc = "done" /\ Len(results) = Len(services))

\* C35: in an append-mode run, at every moment at which no file is open,
\* every record that the destination file held with a score of the run's
\* field when the run started is in the file.
C35_ExistingKept ==
    (append_mode /\ mpc # "writing") =>
        \A i \in 1..Len(file0) :
            get(file0[i], score_field) # None =>
                \E j \in 1..Len(fs[output_file]) : fs[output_file][j] = file0[i]

\* C38: the file that save_failed_services opens is not the scores file of
\* the run, whatever the output path.
C38_FailedPathDiffers ==
    (mpc = "writing" /\ wr.next = "summary") => wr.path # output_file

\* C40: at every model call of the followed call, the conversation is the
\* seed, then the user turn 'Please score <service> for <provider>', then one
\* pair per tool iteration made in the attempt: the assistant's turn with its
\* tool requests and a user turn of tool results.  Its length is
\* len(seed) + 1 + 2k for the tool-iteration counter k, the roles alternate
\* from the first turn and the last turn is the user's; an attempt that has
\* made no model call yet has k = 0 and the seed and the prompt only.
C40_ConversationShape ==
    ctx.pc = "call" =>
        LET conversation == heap[messages]
            seed == Len(SeedConversation)
            k == ctx.tool_iterations
        IN /\ Len(conversation) = seed + 1 + 2 * k
           /\ SubSeq(conversation, 1, seed) = SeedConversation
           /\ conversation[seed + 1] =
                 Message("user", <<TextBlock(<<Said(
                     "Please score " \o services[1].service_name
                         \o " for " \o services[1].provider)>>)>>)
           /\ \A i \in 1..Len(conversation) :
                 conversation[i].role =
                     (IF i % 2 = 1 THEN "user" ELSE "assistant")
           /\ conversation[Len(conversation)].role = "user"
           /\ \A j \in 1..k :
                 /\ \E b \in 1..Len(conversation[seed + 2 * j].content) :
                       "toolUse" \in DOMAIN conversation[seed + 2 * j].content[b]
                 /\ \A b \in 1..Len(conversation[seed + 1 + 2 * j].content) :
                       DOMAIN conversation[seed + 1 + 2 * j].content[b]
                           = {"toolResult"}
           /\ k = hist.calls
           /\ hist.calls = 0 => Len(conversation) = seed + 1

\* The second attempt of a call for (GCP, b), after a first attempt that had
\* made a tool round, is at its third model call: two tool rounds behind it.
C40_Witness ==
    /\ mpc = "service"
    /\ ctx.pc = "call"
    /\ ctx.attempt = 1
    /\ ctx.tool_iterations = 2
    /\ hist.fails = 1
    /\ services[1].provider = "GCP"
    /\ Len(heap[messages]) = 7

\* A turn of the loop over the models is over.
AfterSession == mpc = "loop" /\ model_config.asked # ""

\* C36: when a model's turn of an append-mode invocation is over, every line
\* that the destination file held when the turn started is in the file: the
\* lines of other runs, those that have a score of another model only, and
\* the lines written for the models before it.
C36_ForeignLinesKept ==
    AfterSession =>
        \A i \in 1..Len(file0) :
            \E j \in 1..Len(fs[output_file]) : fs[output_file][j] = file0[i]

\* C37: the services submitted for a model are the input services that had
\* no score under the model's score field in the destination file when the
\* model's turn started, whatever the models before it scored or left out.
C37_SubmittedPerModel ==
    AfterSession =>
        services = services_to_score(input,
                       load_existing_scores(file0,
                                            model_config.config.score_field))

\* C39: when a run of the recovery path is over (a first run, then runs that
\* take the failed-services file as input and append to the scores file),
\* no service_name is in both the scores file and the failed-services file.
C39_ScoredNotFailed ==
    mpc = "done" =>
        Range(Names(fs[output_file]))
            \cap Range(Names(fs[failed_path(output_file)])) = {}

====
